---- MODULE Spec2Model ----
(***************************************************************************)
(* The persistent grouped TTL cache of the weather app (src/utils.py), its *)
(* alias and location registries, the atomic replace-on-write of the cache *)
(* file, and the Nominatim throttle (src/services/geocode_service.py).     *)
(*                                                                         *)
(* Time is counted in ticks; a calendar day is DayLen ticks.  The cache    *)
(* file and its temp file are paths of a small file system of inodes, and  *)
(* a serialised store is NumParts chunks long, so that a write can be cut  *)
(* short and two writers can interleave on one inode.                      *)
(***************************************************************************)
EXTENDS Integers, Sequences, FiniteSets, TLC

\* ------------------------------------------------------------- bounds
MaxTime == 2
DayLen == 2
MaxTtl == 2
MaxOps == 2
NumParts == 2

\* ------------------------------------------------------------- universe
Workers == {1, 2}
InodeIds == {1, 2, 3, 4}
\* (cache group, fingerprint) of the requests made: the points lookup and two
\* URLs of one location's group
Fingerprints == {<<"points_api", "u0">>, <<"loc:K1", "u1">>, <<"loc:K1", "u2">>}
AliasKeys == {"coord:a"}
LocationKeys == {"K1", "K2"}
Lats == {40}
Lons == {-80}
Procs == Workers

VARIABLES
    now,            \* the clock: time.time(), time.monotonic()
    fs,             \* path -> inode id (0: no such file)
    inodes,         \* inode id -> sequence of chunks
    fd,             \* worker -> inode its open temp-file handle writes to (0: none)
    pos,            \* worker -> chunks written through the handle
    lock,           \* process -> worker holding CACHE_LOCK (0: free)
    pc,             \* worker -> position in its current call
    op,             \* worker -> arguments and locals of its current call
    cache,          \* worker -> the `cache` dict of the current locked section
    ret,            \* worker -> outcome of its last call
    ncalls,         \* worker -> number of calls it has started
    upstreamCalls,  \* number of requests.get calls issued
    lastAlias,      \* alias -> the last registration written to the file (history)
    lastStore,      \* the last cached_get_json payload written to the file (history)
    tlock,          \* worker holding _NOMINATIM_LOCK (0: free)
    lastReq,        \* _last_nominatim_request
    wake,           \* worker -> end of its time.sleep(wait)
    issued,         \* times at which throttled requests were issued (history)
    procOf,         \* worker -> its process (fixed)
    faults,         \* whether the environment may fail file operations (fixed)
    budget,         \* number of calls the run makes (fixed)
    ff,             \* worker -> its fetch_forecast call: position, arguments, locals
    gc,             \* worker -> its geocode_address / geocode_place call
    areas           \* the alert areas _build_alert_areas works on, and its result

vars == <<now, fs, inodes, fd, pos, lock, pc, op, cache, ret, ncalls, upstreamCalls,
          lastAlias, lastStore, tlock, lastReq, wake, issued, procOf, faults, budget, ff, gc, areas>>
histVars == <<lastAlias, lastStore>>
fsVars == <<fs, inodes, fd, pos>>
thVars == <<tlock, lastReq, wake, issued>>
\* what no cache operation changes: the fixed variables and the callers' frames
fixedVars == <<procOf, faults, budget, ff, gc, areas>>

\* ------------------------------------------------------------- maps (dicts)
EmptyMap == [x \in {} |-> 0]
Put(m, k, v) == [x \in (DOMAIN m) \cup {k} |-> IF x = k THEN v ELSE m[x]]
\* (mutant) the whole dict is emptied instead of one key popped
PopAll(m, k) == [x \in {} |-> 0]
Pop(m, k) == [x \in (DOMAIN m) \ {k} |-> m[x]]
Max(a, b) == IF a >= b THEN a ELSE b

\* ------------------------------------------------------------- the store
NoDate == -1
CACHE_FILE == "cache.json"
\* (mutant) the store is written in place, over the cache file itself
write_in_place == CACHE_FILE
\* temp_path = f"{CACHE_FILE}.tmp"
temp_path == "cache.json.tmp"
Paths == {CACHE_FILE, temp_path}

today_key == now \div DayLen

Dict(m) == [shape |-> "dict", map |-> m]
Meta(d) == [shape |-> "dict", date |-> d]
Group(entries) == [shape |-> "dict", entries |-> entries]
Entry(exp, v) == [shape |-> "dict", expires_at |-> exp, value |-> v]
LocationRecord(label, lat, lon, t) ==
    [shape |-> "dict", label |-> label, lat |-> lat, lon |-> lon, updated_at |-> t]

empty_cache(today) ==
    [root |-> "object", meta |-> Meta(today), groups |-> Dict(EmptyMap),
     locations |-> Dict(EmptyMap), aliases |-> Dict(EmptyMap)]

\* A store without a "groups" member is a legacy flat cache: it becomes the
\* group "default" of a store whose meta is {} (its flat entries are not
\* members the model's documents carry).
normalize_cache(raw, today) ==
    IF raw.root # "object" THEN empty_cache(today)
    ELSE LET wrapped == IF raw.groups.shape = "absent"
                        THEN [root |-> "object", meta |-> Meta(NoDate),
                              groups |-> Dict(Put(EmptyMap, "default", Group(EmptyMap))),
                              locations |-> Dict(EmptyMap), aliases |-> Dict(EmptyMap)]
                        ELSE raw
             Fix(m) == IF m.shape = "dict" THEN m ELSE Dict(EmptyMap)
         IN  [root |-> "object",
              meta |-> IF wrapped.meta.shape = "absent" THEN Meta(NoDate) ELSE wrapped.meta,
              groups |-> Fix(wrapped.groups),
              locations |-> Fix(wrapped.locations),
              aliases |-> Fix(wrapped.aliases)]

\* (mutant) the rollover resets groups and locations but keeps the aliases
ensure_today_keep_aliases(c, today) ==
    IF c.meta.shape # "dict"
    THEN [raised |-> TRUE, changed |-> FALSE, cache |-> c]
    ELSE IF c.meta.date # today
    THEN [raised |-> FALSE, changed |-> TRUE,
          cache |-> [c EXCEPT !.groups = Dict(EmptyMap), !.locations = Dict(EmptyMap),
                               !.meta = Meta(today)]]
    ELSE [raised |-> FALSE, changed |-> FALSE, cache |-> c]
\* cache.get("meta", {}).get(...) raises AttributeError when meta is no dict.
ensure_today(c, today) ==
    IF c.meta.shape # "dict"
    THEN [raised |-> TRUE, changed |-> FALSE, cache |-> c]
    ELSE IF c.meta.date # today
    THEN [raised |-> FALSE, changed |-> TRUE,
          cache |-> [c EXCEPT !.groups = Dict(EmptyMap), !.locations = Dict(EmptyMap),
                               !.aliases = Dict(EmptyMap), !.meta = Meta(today)]]
    ELSE [raised |-> FALSE, changed |-> FALSE, cache |-> c]

\* ------------------------------------------------------------- the file
Hole == [doc |-> empty_cache(NoDate), part |-> 0]
\* json.dump: the document as NumParts chunks
Serialize(doc) == [i \in 1..NumParts |-> [doc |-> doc, part |-> i]]
\* json.load succeeds on exactly the complete serialisation of one document
ParseOk(content) ==
    /\ Len(content) = NumParts
    /\ \A i \in 1..NumParts : content[i].part = i /\ content[i].doc = content[1].doc
Content(path) == IF fs[path] = 0 THEN << >> ELSE inodes[fs[path]]

ReadOutcomes == IF faults THEN BOOLEAN ELSE {TRUE}

load_cache_file(today, readOk) ==
    IF fs[CACHE_FILE] = 0 THEN empty_cache(today)
    ELSE IF ~readOk \/ ~ParseOk(Content(CACHE_FILE)) THEN empty_cache(today)
    ELSE normalize_cache(Content(CACHE_FILE)[1].doc, today)

\* cache = _load_cache_file(); _ensure_today(cache)
Loaded(readOk) == ensure_today(load_cache_file(today_key, readOk), today_key)

\* ------------------------------------------------------------- calls
NoCache == empty_cache(NoDate)
NoOp == [name |-> "none", group |-> "", key |-> "", ttl |-> 0, alias |-> "", loc |-> "",
         lnow |-> 0, data |-> 0, throttled |-> FALSE, seq |-> 0, over |-> "", wt |-> 0]
\* what a call returned: its name, its key argument and its number among the calls
Result(n, a, q) == [name |-> n, arg |-> a, seq |-> q, st |-> "ok", err |-> "",
                    val |-> -1, key |-> "", keys |-> {}]
RetNone == [Result("none", "", 0) EXCEPT !.st = "none"]
Raised(r, e) == [r EXCEPT !.st = "raise", !.err = e]

RECURSIVE SumCalls(_, _)
SumCalls(c, ws) == IF ws = {} THEN 0
                   ELSE LET x == CHOOSE v \in ws : TRUE IN c[x] + SumCalls(c, ws \ {x})
Total == SumCalls(ncalls, Workers)

\* (mutant) the read-modify-write runs without taking the lock
LockIgnored(w) == TRUE
\* with CACHE_LOCK: the lock of the worker's own process must be free
LockFree(w) == lock[procOf[w]] = 0

\* (mutant) an entry that expires exactly now still counts as fresh
IsFreshInclusive(e, t) == e.expires_at >= t
\* cached.get("expires_at", 0) > now
IsFresh(e, t) == e.expires_at > t

\* lines 225-228 of cached_get_json: the entry of (group, key), if usable.  A group
\* or an entry that is no dict raises AttributeError (TypeError for an expires_at
\* that is no number); a null entry is falsy and skipped.
lookup(c, g, k, t) ==
    IF g \notin DOMAIN c.groups.map THEN [raised |-> FALSE, hit |-> FALSE, value |-> -1]
    ELSE LET grp == c.groups.map[g] IN
         IF grp.shape # "dict" THEN [raised |-> TRUE, hit |-> FALSE, value |-> -1]
         ELSE IF k \notin DOMAIN grp.entries THEN [raised |-> FALSE, hit |-> FALSE, value |-> -1]
         ELSE LET e == grp.entries[k] IN
              IF e.shape = "null" THEN [raised |-> FALSE, hit |-> FALSE, value |-> -1]
              ELSE IF e.shape # "dict" THEN [raised |-> TRUE, hit |-> FALSE, value |-> -1]
              ELSE IF IsFresh(e, t) THEN [raised |-> FALSE, hit |-> TRUE, value |-> e.value]
              ELSE [raised |-> FALSE, hit |-> FALSE, value |-> -1]

\* (mutant) nothing is pruned
prune_nothing(entries, t) == entries
\* entry.get("expires_at", 0) <= now: pop
prune_group_cache(entries, t) ==
    [k \in {x \in DOMAIN entries : ~(entries[x].expires_at <= t)} |-> entries[k]]

\* (mutant) the entry is stored without its time to live
store_no_ttl(c, g, k, wt, ttl, data) ==
    LET grp == IF g \in DOMAIN c.groups.map THEN c.groups.map[g] ELSE [shape |-> "dict", entries |-> [x \in {} |-> 0]] IN
    [raised |-> FALSE,
     cache |-> [c EXCEPT !.groups.map =
                   [x \in (DOMAIN @) \cup {g} |->
                       IF x = g THEN [shape |-> "dict",
                                      entries |-> [y \in (DOMAIN grp.entries) \cup {k} |->
                                                     IF y = k THEN [shape |-> "dict", expires_at |-> wt,
                                                                    value |-> data]
                                                     ELSE grp.entries[y]]]
                       ELSE @[x]]]]
\* lines 239-243 of cached_get_json: prune the group, then store the entry
store(c, g, k, wt, ttl, data) ==
    LET grp == IF g \in DOMAIN c.groups.map THEN c.groups.map[g] ELSE Group(EmptyMap) IN
    IF grp.shape # "dict" \/ \E x \in DOMAIN grp.entries : grp.entries[x].shape # "dict"
    THEN [raised |-> TRUE, cache |-> c]
    ELSE [raised |-> FALSE,
          cache |-> [c EXCEPT !.groups.map =
                        Put(@, g, Group(Put(prune_group_cache(grp.entries, wt), k,
                                            Entry(wt + ttl, data))))]]

\* (mutant) setdefault: an alias already registered keeps its canonical key
set_alias_keep_first(m, a, k) == IF a \in DOMAIN m THEN m ELSE Put(m, a, k)
\* cache["aliases"][alias_key] = canonical_key
set_alias(m, a, k) == Put(m, a, k)

location_group_key(k) == IF k = "" THEN "default" ELSE "loc:" \o k

\* ------------------------------------------------------------- steps
Return(w, r) ==
    /\ pc' = [pc EXCEPT ![w] = "idle"]
    /\ lock' = [lock EXCEPT ![procOf[w]] = IF @ = w THEN 0 ELSE @]
    /\ cache' = [cache EXCEPT ![w] = NoCache]
    /\ op' = [op EXCEPT ![w] = NoOp]
    /\ ret' = [ret EXCEPT ![w] = r]

\* the locked section goes on to _write_cache_file(c); r is what the call returns
StartWrite(w, o, c, r) ==
    /\ pc' = [pc EXCEPT ![w] = "wr_mkdir"]
    /\ lock' = [lock EXCEPT ![procOf[w]] = w]
    /\ cache' = [cache EXCEPT ![w] = c]
    /\ op' = [op EXCEPT ![w] = o]
    /\ ret' = [ret EXCEPT ![w] = r]

\* a call starts: the worker is between calls and the call budget is not used up
Call(w) ==
    /\ pc[w] = "idle"
    /\ Total < budget
    /\ ncalls' = [ncalls EXCEPT ![w] = @ + 1]

\* Each call below that has one locked section is one step up to its
\* _write_cache_file: it waits for the lock, loads the store, and returns, raises
\* (a meta member that is no dict) or goes on to write, keeping the lock.
resolve_location_alias(w, a) ==
    /\ Call(w)
    /\ LET r == Result("resolve_location_alias", a, Total + 1) IN
       IF a = "" THEN Return(w, r)
       ELSE /\ LockFree(w)
            /\ \E rd \in ReadOutcomes :
                 LET l == Loaded(rd) IN
                 IF l.raised THEN Return(w, Raised(r, "AttributeError"))
                 ELSE Return(w, [r EXCEPT !.key = IF a \in DOMAIN l.cache.aliases.map
                                                  THEN l.cache.aliases.map[a] ELSE ""])
    /\ UNCHANGED <<now, fsVars, upstreamCalls, histVars, thVars, fixedVars>>

\* (mutant) only the alias key is tested for emptiness
register_location_alias_unchecked(w, a, k) ==
    /\ Call(w)
    /\ LET r == Result("register_location_alias", a, Total + 1) IN
       IF a = "" THEN Return(w, r)
       ELSE /\ LockFree(w)
            /\ \E rd \in ReadOutcomes :
                 LET l == Loaded(rd) IN
                 IF l.raised THEN Return(w, Raised(r, "AttributeError"))
                 ELSE StartWrite(w, [NoOp EXCEPT !.name = "register_location_alias",
                                                 !.alias = a, !.loc = k, !.seq = Total + 1],
                                 [l.cache EXCEPT !.aliases.map = set_alias(@, a, k)], r)
    /\ UNCHANGED <<now, fsVars, upstreamCalls, histVars, thVars, fixedVars>>

register_location_alias(w, a, k) ==
    /\ Call(w)
    /\ LET r == Result("register_location_alias", a, Total + 1) IN
       IF a = "" \/ k = "" THEN Return(w, r)
       ELSE /\ LockFree(w)
            /\ \E rd \in ReadOutcomes :
                 LET l == Loaded(rd) IN
                 IF l.raised THEN Return(w, Raised(r, "AttributeError"))
                 ELSE StartWrite(w, [NoOp EXCEPT !.name = "register_location_alias",
                                                 !.alias = a, !.loc = k, !.seq = Total + 1,
                                                 !.over = IF a \in DOMAIN l.cache.aliases.map
                                                          THEN l.cache.aliases.map[a] ELSE ""],
                                 [l.cache EXCEPT !.aliases.map = set_alias(@, a, k)], r)
    /\ UNCHANGED <<now, fsVars, upstreamCalls, histVars, thVars, fixedVars>>

register_location(w, k, label, lat, lon) ==
    /\ Call(w)
    /\ LET r == Result("register_location", k, Total + 1) IN
       IF k = "" THEN Return(w, r)
       ELSE /\ LockFree(w)
            /\ \E rd \in ReadOutcomes :
                 LET l == Loaded(rd) IN
                 IF l.raised THEN Return(w, Raised(r, "AttributeError"))
                 ELSE StartWrite(w, [NoOp EXCEPT !.name = "register_location", !.loc = k,
                                                 !.seq = Total + 1],
                                 [l.cache EXCEPT !.locations.map =
                                     Put(@, k, LocationRecord(IF label = "" THEN k ELSE label,
                                                              lat, lon, now))], r)
    /\ UNCHANGED <<now, fsVars, upstreamCalls, histVars, thVars, fixedVars>>

list_cached_locations(w) ==
    /\ Call(w)
    /\ LockFree(w)
    /\ \E rd \in ReadOutcomes :
         LET l == Loaded(rd)
             r == Result("list_cached_locations", "", Total + 1)
             found == {k \in DOMAIN l.cache.locations.map :
                          l.cache.locations.map[k].shape = "dict"}
         IN  IF l.raised THEN Return(w, Raised(r, "AttributeError"))
             ELSE IF l.changed
             THEN StartWrite(w, [NoOp EXCEPT !.name = "list_cached_locations",
                                             !.seq = Total + 1],
                             l.cache, [r EXCEPT !.keys = found])
             ELSE Return(w, [r EXCEPT !.keys = found])
    /\ UNCHANGED <<now, fsVars, upstreamCalls, histVars, thVars, fixedVars>>

clear_cache_group(w, g) ==
    /\ Call(w)
    /\ LET r == Result("clear_cache_group", g, Total + 1) IN
       IF g = "" THEN Return(w, r)
       ELSE /\ LockFree(w)
            /\ \E rd \in ReadOutcomes :
                 LET l == Loaded(rd) IN
                 IF l.raised THEN Return(w, Raised(r, "AttributeError"))
                 ELSE StartWrite(w, [NoOp EXCEPT !.name = "clear_cache_group", !.group = g,
                                                 !.seq = Total + 1],
                                 [l.cache EXCEPT !.groups.map = Pop(@, g)], r)
    /\ UNCHANGED <<now, fsVars, upstreamCalls, histVars, thVars, fixedVars>>

clear_location_cache(w, k) ==
    IF k = ""
    THEN /\ Call(w)
         /\ Return(w, Result("clear_location_cache", k, Total + 1))
         /\ UNCHANGED <<now, fsVars, upstreamCalls, histVars, thVars, fixedVars>>
    ELSE clear_cache_group(w, location_group_key(k))

\* (mutant) the group is purged, the location record is left for later
delete_location_group_only(w, k) ==
    /\ Call(w)
    /\ LET r == Result("delete_location_cache", k, Total + 1) IN
       IF k = "" THEN Return(w, r)
       ELSE /\ LockFree(w)
            /\ \E rd \in ReadOutcomes :
                 LET l == Loaded(rd) IN
                 IF l.raised THEN Return(w, Raised(r, "AttributeError"))
                 ELSE StartWrite(w, [NoOp EXCEPT !.name = "delete_location_cache", !.loc = k,
                                                 !.seq = Total + 1],
                                 [l.cache EXCEPT !.groups.map = Pop(@, location_group_key(k))], r)
    /\ UNCHANGED <<now, fsVars, upstreamCalls, histVars, thVars, fixedVars>>

\* (mutant) the aliases of the location go with it
delete_location_with_aliases(w, k) ==
    /\ Call(w)
    /\ LET r == Result("delete_location_cache", k, Total + 1) IN
       IF k = "" THEN Return(w, r)
       ELSE /\ LockFree(w)
            /\ \E rd \in ReadOutcomes :
                 LET l == Loaded(rd)
                     al == l.cache.aliases.map
                 IN
                 IF l.raised THEN Return(w, Raised(r, "AttributeError"))
                 ELSE StartWrite(w, [NoOp EXCEPT !.name = "delete_location_cache", !.loc = k,
                                                 !.seq = Total + 1],
                                 [l.cache EXCEPT !.groups.map = Pop(@, location_group_key(k)),
                                                 !.locations.map = Pop(@, k),
                                                 !.aliases.map =
                                                    [a \in {x \in DOMAIN al : al[x] # k} |-> al[a]]],
                                 r)
    /\ UNCHANGED <<now, fsVars, upstreamCalls, histVars, thVars, fixedVars>>

delete_location_cache(w, k) ==
    /\ Call(w)
    /\ LET r == Result("delete_location_cache", k, Total + 1) IN
       IF k = "" THEN Return(w, r)
       ELSE /\ LockFree(w)
            /\ \E rd \in ReadOutcomes :
                 LET l == Loaded(rd) IN
                 IF l.raised THEN Return(w, Raised(r, "AttributeError"))
                 ELSE StartWrite(w, [NoOp EXCEPT !.name = "delete_location_cache", !.loc = k,
                                                 !.seq = Total + 1],
                                 [l.cache EXCEPT !.groups.map = Pop(@, location_group_key(k)),
                                                 !.locations.map = Pop(@, k)], r)
    /\ UNCHANGED <<now, fsVars, upstreamCalls, histVars, thVars, fixedVars>>

\* line 220-221: the fingerprint and `now` are taken before the lock
cached_get_json(w, g, k, ttl, th) ==
    /\ Call(w)
    /\ pc' = [pc EXCEPT ![w] = "cg_lookup"]
    /\ op' = [op EXCEPT ![w] = [NoOp EXCEPT !.name = "cached_get_json", !.group = g,
                                            !.key = k, !.ttl = ttl, !.lnow = now,
                                            !.throttled = th, !.seq = Total + 1]]
    /\ ret' = [ret EXCEPT ![w] = RetNone]
    /\ UNCHANGED <<now, fsVars, lock, cache, upstreamCalls, histVars, thVars, fixedVars>>

\* (mutant) the lock of the first section is kept across the request
cg_lookup_hold_lock(w) ==
    /\ pc[w] = "cg_lookup"
    /\ LockFree(w)
    /\ \E rd \in ReadOutcomes :
         LET l == Loaded(rd)
             f == lookup(l.cache, op[w].group, op[w].key, op[w].lnow)
             r == Result("cached_get_json", op[w].key, op[w].seq)
         IN  IF l.raised \/ f.raised THEN Return(w, Raised(r, "AttributeError"))
             ELSE IF f.hit THEN Return(w, [r EXCEPT !.val = f.value])
             ELSE /\ pc' = [pc EXCEPT ![w] = IF op[w].throttled THEN "cg_throttle"
                                                                ELSE "cg_http"]
                  /\ lock' = [lock EXCEPT ![procOf[w]] = w]
                  /\ UNCHANGED <<cache, op, ret>>
    /\ UNCHANGED <<now, fsVars, ncalls, upstreamCalls, histVars, thVars, fixedVars>>
\* lines 222-228: the first locked section
cg_lookup(w) ==
    /\ pc[w] = "cg_lookup"
    /\ LockFree(w)
    /\ \E rd \in ReadOutcomes :
         LET l == Loaded(rd)
             f == lookup(l.cache, op[w].group, op[w].key, op[w].lnow)
             r == Result("cached_get_json", op[w].key, op[w].seq)
         IN  IF l.raised \/ f.raised THEN Return(w, Raised(r, "AttributeError"))
             ELSE IF f.hit THEN Return(w, [r EXCEPT !.val = f.value])
             ELSE /\ pc' = [pc EXCEPT ![w] = IF op[w].throttled THEN "cg_throttle"
                                                                ELSE "cg_http"]
                  /\ UNCHANGED <<lock, cache, op, ret>>
    /\ UNCHANGED <<now, fsVars, ncalls, upstreamCalls, histVars, thVars, fixedVars>>

\* lines 232-234: requests.get, raise_for_status, response.json(); the upstream's
\* answer is the data it holds at the time of the request
\* (mutant) a failed request is issued again
cg_http_retry(w, outcome) ==
    /\ pc[w] = "cg_http"
    /\ upstreamCalls' = upstreamCalls + 1
    /\ issued' = IF op[w].throttled THEN Append(issued, now) ELSE issued
    /\ IF outcome = "ok"
       THEN /\ pc' = [pc EXCEPT ![w] = "cg_store"]
            /\ op' = [op EXCEPT ![w].data = now]
            /\ UNCHANGED <<lock, cache, ret>>
       ELSE UNCHANGED <<pc, op, lock, cache, ret>>
    /\ UNCHANGED <<now, fsVars, ncalls, histVars, tlock, lastReq, wake, fixedVars>>
\* (mutant) a failed request is remembered in the store
cg_http_negative(w, outcome) ==
    /\ pc[w] = "cg_http"
    /\ upstreamCalls' = upstreamCalls + 1
    /\ issued' = IF op[w].throttled THEN Append(issued, now) ELSE issued
    /\ IF outcome = "ok"
       THEN /\ pc' = [pc EXCEPT ![w] = "cg_store"]
            /\ op' = [op EXCEPT ![w].data = now]
            /\ UNCHANGED <<lock, cache, ret, inodes>>
       ELSE /\ Return(w, Raised(Result("cached_get_json", op[w].key, op[w].seq), outcome))
            /\ inodes' = IF fs[CACHE_FILE] = 0 THEN inodes
                         ELSE [inodes EXCEPT ![fs[CACHE_FILE]] =
                                  Serialize(store(Loaded(TRUE).cache, op[w].group, op[w].key,
                                                  now, op[w].ttl, -1).cache)]
    /\ UNCHANGED <<now, fs, fd, pos, ncalls, histVars, tlock, lastReq, wake, fixedVars>>
cg_http(w, outcome) ==
    /\ pc[w] = "cg_http"
    /\ upstreamCalls' = upstreamCalls + 1
    /\ issued' = IF op[w].throttled THEN Append(issued, now) ELSE issued
    /\ IF outcome = "ok"
       THEN /\ pc' = [pc EXCEPT ![w] = "cg_store"]
            /\ op' = [op EXCEPT ![w].data = now]
            /\ UNCHANGED <<lock, cache, ret>>
       ELSE Return(w, Raised(Result("cached_get_json", op[w].key, op[w].seq), outcome))
    /\ UNCHANGED <<now, fsVars, ncalls, histVars, tlock, lastReq, wake, fixedVars>>

\* lines 236-243: the second locked section, up to _write_cache_file
cg_store(w) ==
    /\ pc[w] = "cg_store"
    /\ LockFree(w)
    /\ \E rd \in ReadOutcomes :
         LET l == Loaded(rd)
             s == store(l.cache, op[w].group, op[w].key, now, op[w].ttl, op[w].data)
             r == Result("cached_get_json", op[w].key, op[w].seq)
         IN  IF l.raised \/ s.raised THEN Return(w, Raised(r, "AttributeError"))
             ELSE StartWrite(w, [op[w] EXCEPT !.wt = now], s.cache,
                             [r EXCEPT !.val = op[w].data])
    /\ UNCHANGED <<now, fsVars, ncalls, upstreamCalls, histVars, thVars, fixedVars>>

\* ------------------------------------------------------------- _write_cache_file
Referenced(i, f, d) == (\E p \in Paths : f[p] = i) \/ (\E w \in Workers : d[w] = i)
\* an inode no path and no handle refers to is gone
Gc(ino, f, d) == [i \in InodeIds |-> IF Referenced(i, f, d) THEN ino[i] ELSE << >>]
FreeInode == CHOOSE i \in InodeIds :
                 /\ ~Referenced(i, fs, fd)
                 /\ \A j \in InodeIds : ~Referenced(j, fs, fd) => i <= j
WriteAt(c, i, ch) ==
    [j \in 1..Max(Len(c), i) |-> IF j = i THEN ch ELSE IF j <= Len(c) THEN c[j] ELSE Hole]

NoAlias == [key |-> "", date |-> NoDate, over |-> ""]
NoStore == [group |-> "", key |-> "", val |-> -1, exp |-> 0, date |-> NoDate,
            seq |-> 0, quiet |-> FALSE]

\* the call returns after _write_cache_file; what it wrote, if the rename took
\* place, is recorded
ReturnWritten(w, written) ==
    /\ Return(w, ret[w])
    /\ lastAlias' = IF written /\ op[w].name = "register_location_alias"
                    THEN [lastAlias EXCEPT ![op[w].alias] =
                             [key |-> op[w].loc, date |-> cache[w].meta.date,
                              over |-> op[w].over]]
                    ELSE lastAlias
    /\ lastStore' = IF written /\ op[w].name = "cached_get_json"
                    THEN [group |-> op[w].group, key |-> op[w].key, val |-> op[w].data,
                          exp |-> op[w].wt + op[w].ttl, date |-> cache[w].meta.date,
                          seq |-> Total,
                          quiet |-> \A v \in Workers \ {w} : pc[v] = "idle"]
                    ELSE lastStore

\* _write_cache_file as one step: with no failing file operation and no other
\* process at the files, the temp file is written whole and renamed
write_cache_file(w) ==
    /\ pc[w] = "wr_mkdir"
    /\ LET t == IF fs[temp_path] # 0 THEN fs[temp_path] ELSE FreeInode
           f == [p \in Paths |-> IF p = CACHE_FILE THEN t ELSE IF p = temp_path THEN 0 ELSE fs[p]]
       IN  /\ fs' = f
           /\ inodes' = Gc([inodes EXCEPT ![t] = Serialize(cache[w])], f, fd)
    /\ ReturnWritten(w, TRUE)
    /\ UNCHANGED <<now, fd, pos, ncalls, upstreamCalls, thVars, fixedVars>>

\* lines 191-193: os.makedirs is outside the try block, its OSError propagates
wr_mkdir(w) ==
    /\ pc[w] = "wr_mkdir"
    /\ \E ok \in ReadOutcomes :
         IF ok THEN /\ pc' = [pc EXCEPT ![w] = "wr_open"]
                    /\ UNCHANGED <<lock, cache, op, ret>>
         ELSE Return(w, Raised(ret[w], "OSError"))
    /\ UNCHANGED <<now, fsVars, ncalls, upstreamCalls, histVars, thVars, fixedVars>>

\* line 196: open(temp_path, "w") truncates the file the path names, or creates one
wr_open(w) ==
    /\ pc[w] = "wr_open"
    /\ \E ok \in ReadOutcomes :
         IF ok
         THEN /\ IF fs[temp_path] # 0
                 THEN /\ fd' = [fd EXCEPT ![w] = fs[temp_path]]
                      /\ inodes' = [inodes EXCEPT ![fs[temp_path]] = << >>]
                      /\ fs' = fs
                 ELSE /\ fd' = [fd EXCEPT ![w] = FreeInode]
                      /\ inodes' = [inodes EXCEPT ![FreeInode] = << >>]
                      /\ fs' = [fs EXCEPT ![temp_path] = FreeInode]
              /\ pos' = [pos EXCEPT ![w] = 0]
              /\ pc' = [pc EXCEPT ![w] = "wr_write"]
              /\ UNCHANGED <<lock, cache, op, ret, histVars>>
         ELSE /\ ReturnWritten(w, FALSE)
              /\ UNCHANGED fsVars
    /\ UNCHANGED <<now, ncalls, upstreamCalls, thVars, fixedVars>>

\* line 197: json.dump writes the next chunk at the handle's offset; after the
\* last one the with-block closes the handle.  An OSError closes it and returns.
wr_write(w) ==
    /\ pc[w] = "wr_write"
    /\ \E ok \in ReadOutcomes :
         IF ok
         THEN LET ino == [inodes EXCEPT ![fd[w]] =
                             WriteAt(@, pos[w] + 1, Serialize(cache[w])[pos[w] + 1])]
                  last == pos[w] + 1 = NumParts
                  d == [fd EXCEPT ![w] = IF last THEN 0 ELSE @]
              IN  /\ fd' = d
                  /\ inodes' = Gc(ino, fs, d)
                  /\ pos' = [pos EXCEPT ![w] = IF last THEN 0 ELSE @ + 1]
                  /\ pc' = [pc EXCEPT ![w] = IF last THEN "wr_replace" ELSE "wr_write"]
                  /\ UNCHANGED <<fs, lock, cache, op, ret, histVars>>
         ELSE /\ fd' = [fd EXCEPT ![w] = 0]
              /\ inodes' = Gc(inodes, fs, fd')
              /\ pos' = [pos EXCEPT ![w] = 0]
              /\ fs' = fs
              /\ ReturnWritten(w, FALSE)
    /\ UNCHANGED <<now, ncalls, upstreamCalls, thVars, fixedVars>>

\* line 198: os.replace(temp_path, CACHE_FILE); FileNotFoundError is an OSError
wr_replace(w) ==
    /\ pc[w] = "wr_replace"
    /\ \E ok \in ReadOutcomes :
         IF ok /\ fs[temp_path] # 0
         THEN /\ fs' = [p \in Paths |-> IF p = CACHE_FILE THEN fs[temp_path]
                                        ELSE IF p = temp_path THEN 0 ELSE fs[p]]
              /\ inodes' = Gc(inodes, fs', fd)
              /\ ReturnWritten(w, TRUE)
         ELSE /\ UNCHANGED <<fs, inodes>>
              /\ ReturnWritten(w, FALSE)
    /\ UNCHANGED <<now, fd, pos, ncalls, upstreamCalls, thVars, fixedVars>>

\* clear_cache: os.remove of the cache file and of the temp file, under the lock;
\* a remove that fails is skipped
clear_cache(w) ==
    /\ Call(w)
    /\ LockFree(w)
    /\ \E gone \in (IF faults THEN SUBSET Paths ELSE {Paths}) :
         /\ fs' = [p \in Paths |-> IF p \in gone THEN 0 ELSE fs[p]]
         /\ inodes' = Gc(inodes, fs', fd)
         /\ lastAlias' = IF CACHE_FILE \in gone
                         THEN [a \in DOMAIN lastAlias |-> NoAlias]
                         ELSE lastAlias
    /\ Return(w, Result("clear_cache", "", Total + 1))
    /\ UNCHANGED <<now, fd, pos, upstreamCalls, lastStore, thVars, fixedVars>>

\* ------------------------------------------------------------- throttle
NOMINATIM_MIN_INTERVAL == 1

\* _throttle_nominatim up to time.sleep(wait): the lock is held across the sleep
throttle_nominatim(w) ==
    /\ pc[w] = "cg_throttle"
    /\ tlock = 0
    /\ LET wait == NOMINATIM_MIN_INTERVAL - (now - lastReq) IN
       IF wait > 0
       THEN /\ tlock' = w
            /\ wake' = [wake EXCEPT ![w] = now + wait]
            /\ pc' = [pc EXCEPT ![w] = "th_sleep"]
            /\ UNCHANGED lastReq
       ELSE /\ lastReq' = now
            /\ pc' = [pc EXCEPT ![w] = "cg_http"]
            /\ UNCHANGED <<tlock, wake>>
    /\ UNCHANGED <<now, fsVars, lock, op, cache, ret, ncalls, upstreamCalls, histVars,
                   issued, fixedVars>>

\* the sleep ends no earlier than asked; _last_nominatim_request = time.monotonic()
th_wake(w) ==
    /\ pc[w] = "th_sleep"
    /\ now >= wake[w]
    /\ lastReq' = now
    /\ tlock' = 0
    /\ wake' = [wake EXCEPT ![w] = 0]
    /\ pc' = [pc EXCEPT ![w] = "cg_http"]
    /\ UNCHANGED <<now, fsVars, lock, op, cache, ret, ncalls, upstreamCalls, histVars,
                   issued, fixedVars>>

\* ------------------------------------------------------------- environment
WritePcs == {"wr_mkdir", "wr_open", "wr_write", "wr_replace"}

\* The clock is read at the call of cached_get_json, in each locked section's
\* load and in the upstream's answer, never inside _write_cache_file: a tick
\* during a write is taken after it.
Tick ==
    /\ now < MaxTime
    /\ \A w \in Workers : pc[w] \notin WritePcs
    /\ now' = now + 1
    /\ UNCHANGED <<fsVars, lock, pc, op, cache, ret, ncalls, upstreamCalls, histVars,
                   thVars, fixedVars>>

\* a process dies: its threads, locks and handles are gone, the files stay
Crash(p) ==
    /\ \E w \in Workers : procOf[w] = p /\ pc[w] # "idle"
    /\ pc' = [w \in Workers |-> IF procOf[w] = p THEN "idle" ELSE pc[w]]
    /\ op' = [w \in Workers |-> IF procOf[w] = p THEN NoOp ELSE op[w]]
    /\ cache' = [w \in Workers |-> IF procOf[w] = p THEN NoCache ELSE cache[w]]
    /\ ret' = [w \in Workers |-> IF procOf[w] = p THEN RetNone ELSE ret[w]]
    /\ fd' = [w \in Workers |-> IF procOf[w] = p THEN 0 ELSE fd[w]]
    /\ pos' = [w \in Workers |-> IF procOf[w] = p THEN 0 ELSE pos[w]]
    /\ wake' = [w \in Workers |-> IF procOf[w] = p THEN 0 ELSE wake[w]]
    /\ lock' = [lock EXCEPT ![p] = 0]
    /\ tlock' = IF tlock # 0 /\ procOf[tlock] = p THEN 0 ELSE tlock
    /\ lastReq' = 0
    /\ inodes' = Gc(inodes, fs, fd')
    /\ UNCHANGED <<now, fs, ncalls, upstreamCalls, histVars, issued, fixedVars>>

\* ------------------------------------------------------------- initial states
\* A store left by an earlier run of the program on day 0: an alias, a location
\* record, one entry that outlives the day and one that expires at tick 1.
SeedStore ==
    [empty_cache(0) EXCEPT
        !.aliases.map = Put(EmptyMap, "coord:a", "K1"),
        !.locations.map = Put(EmptyMap, "K1", LocationRecord("K1", 40, -80, 0)),
        !.groups.map = Put(EmptyMap, "loc:K1",
                           Group(Put(Put(EmptyMap, "u1", Entry(DayLen + 1, 0)),
                                     "u2", Entry(1, 0))))]

\* the cache file holds the chunks c, or is missing
FileContent(c) ==
    /\ fs = [p \in Paths |-> IF p = CACHE_FILE THEN 1 ELSE 0]
    /\ inodes = [i \in InodeIds |-> IF i = 1 THEN c ELSE << >>]
FileMissing ==
    /\ fs = [p \in Paths |-> 0]
    /\ inodes = [i \in InodeIds |-> << >>]
SeedAlias == [a \in AliasKeys |-> IF a = "coord:a" THEN [key |-> "K1", date |-> 0, over |-> ""]
                                  ELSE NoAlias]

\* no fetch_forecast call: the arguments, the upstream's answers `up`, and the
\* locals of weather_service.fetch_forecast
NoUpstream == [forecast |-> FALSE, hourly |-> FALSE, stations |-> FALSE, city |-> "",
               state |-> ""]
NoFetch == [pc |-> "none", mark |-> 0, calls |-> 0, valid |-> FALSE, lat |-> 0, lon |-> 0,
            pref |-> "", include_hourly |-> FALSE, include_alerts |-> FALSE,
            up |-> NoUpstream, cached |-> "", key |-> "", record |-> FALSE, error |-> "",
            hourly_error |-> "", alerts_error |-> "", observed |-> FALSE, areas |-> FALSE]

\* ------------------------------------------------------------- fetch_forecast
\* everything but the callers' frames ff, gc and areas
cacheVars == <<now, fsVars, lock, pc, op, cache, ret, ncalls, upstreamCalls, histVars,
               thVars, procOf, faults, budget>>

\* the messages fetch_forecast returns or sets on the record
ErrParse == "Enter valid decimal coordinates."
ErrRange == "Coordinates are out of range."
ErrPointsHttp == "Weather.gov returned an error for those coordinates."
ErrUnreachable == "Could not reach api.weather.gov."
ErrNoForecastUrl == "No forecast URL available for that location."
ErrLocation == "Could not determine city and state for this location."
ErrForecastHttp == "Weather.gov returned an error for the forecast request."
ErrNoPeriods == "No forecast periods available for that location."
ErrHourly == "Hourly forecast unavailable."
ErrAlerts == "Alerts unavailable."

\* the exceptions of requests that the handlers of fetch_forecast catch
HttpErrors == {"HTTPError", "RequestException"}

\* str.strip() on the strings of the universe
Strip(s) == IF s = " " THEN "" ELSE IF s = " Erie" THEN "Erie" ELSE s

\* utils.format_location_key: None unless both parts are non-empty, tested
\* before they are stripped
format_location_key(city, state) ==
    IF city = "" \/ state = "" THEN "" ELSE Strip(city) \o ", " \o Strip(state)

\* utils.format_coordinate_alias: "coord:<lat>,<lon>" to four decimals; the one
\* coordinate pair in range is the pair of the seeded alias
format_coordinate_alias(lat, lon) ==
    IF lat = 40 /\ lon = -80 THEN "coord:a" ELSE "coord:"

\* (mutant) only the latitude is tested
InRangeLatOnly(lat, lon) == -90 <= lat /\ lat <= 90
\* -90 <= lat <= 90 and -180 <= lon <= 180
InRange(lat, lon) == -90 <= lat /\ lat <= 90 /\ -180 <= lon /\ lon <= 180

\* preferred_location_key.strip() or format_location_key(preferred_city,
\* preferred_state)
preferred_key(pkey, pcity, pstate) ==
    IF Strip(pkey) # "" THEN Strip(pkey) ELSE format_location_key(pcity, pstate)

\* (mutant) the key of the point metadata goes before the cached alias
derive_fresh_first(pref, cached, default) ==
    IF pref # "" THEN pref ELSE IF default # "" THEN default ELSE cached
\* preferred_key or cached_location_key or default_key
derive_location_key(pref, cached, default) ==
    IF pref # "" THEN pref ELSE IF cached # "" THEN cached ELSE default

\* return None, <message>; an exception no handler catches leaves the same way
Abort(f, e) == [f EXCEPT !.pc = "done", !.record = FALSE, !.error = e]

\* the worker is at call site p and has not made the call yet
At(w, p) == ff[w].pc = p /\ ncalls[w] = ff[w].mark
\* the call made at site p has returned
Returned(w, p) == ff[w].pc = p /\ ncalls[w] = ff[w].mark + 1 /\ pc[w] = "idle"
\* fetch_forecast runs on to its next call site or to its return
Step(w, f) ==
    /\ ff' = [ff EXCEPT ![w] = [f EXCEPT !.mark = ncalls[w]]]
    /\ UNCHANGED <<cacheVars, gc, areas>>

\* what an exception of a mandatory fetch becomes
Failed(f, r, onHttp) ==
    Abort(f, IF r.err = "HTTPError" THEN onHttp
             ELSE IF r.err = "RequestException" THEN ErrUnreachable ELSE r.err)

\* lines 1185-1245: the alerts fetch, or alerts_deferred, then register_location
ToAlerts(f) == [f EXCEPT !.pc = IF f.include_alerts THEN "alerts" ELSE "register"]
\* lines 1111-1112: the station list, if the point metadata names one
ToStations(f) == IF f.up.stations THEN [f EXCEPT !.pc = "stations"] ELSE ToAlerts(f)
\* lines 1077-1102: the hourly fetch, hourly_error without a URL, or hourly_deferred
ToHourly(f) ==
    IF ~f.include_hourly THEN ToStations(f)
    ELSE IF f.up.hourly THEN [f EXCEPT !.pc = "hourly"]
    ELSE ToStations([f EXCEPT !.hourly_error = ErrHourly])

\* lines 979-990: the coordinates are parsed and range-checked, the preferred
\* key is computed (lines 997-1001; it depends on the arguments alone)
ff_start(w, valid, lat, lon, pkey, pcity, pstate, ih, ia) ==
    /\ ff[w].pc = "none"
    /\ pc[w] = "idle"
    /\ LET f == [NoFetch EXCEPT !.mark = ncalls[w], !.calls = upstreamCalls,
                                !.valid = valid, !.include_hourly = ih,
                                !.include_alerts = ia,
                                !.pref = preferred_key(pkey, pcity, pstate)]
           g == [f EXCEPT !.lat = lat, !.lon = lon]
       IN  ff' = [ff EXCEPT ![w] = IF ~valid THEN Abort(f, ErrParse)
                                   ELSE IF ~InRange(lat, lon) THEN Abort(g, ErrRange)
                                   ELSE [g EXCEPT !.pc = "resolve"]]
    /\ UNCHANGED <<cacheVars, gc, areas>>

\* line 996
ff_resolve(w) ==
    /\ At(w, "resolve")
    /\ resolve_location_alias(w, format_coordinate_alias(ff[w].lat, ff[w].lon))

ff_resolved(w) ==
    /\ Returned(w, "resolve")
    /\ Step(w, IF ret[w].st = "raise" THEN Abort(ff[w], ret[w].err)
               ELSE [ff[w] EXCEPT !.cached = ret[w].key, !.pc = "points"])

\* lines 1005-1012
ff_points(w) ==
    /\ At(w, "points")
    /\ cached_get_json(w, "points_api", "u0", MaxTtl, FALSE)

\* (mutant) a failed points fetch is passed over
ff_pointed_lenient(w, props) ==
    /\ Returned(w, "points")
    /\ LET f == [ff[w] EXCEPT !.up = props]
           default_key == format_location_key(props.city, props.state)
           location_key == derive_location_key(f.pref, f.cached, default_key)
       IN  Step(w, IF ~props.forecast THEN Abort(ff[w], ErrNoForecastUrl)
                   ELSE IF location_key = "" THEN Abort(f, ErrLocation)
                   ELSE [f EXCEPT !.key = location_key,
                                  !.pc = IF f.cached # location_key THEN "alias"
                                                                    ELSE "forecast"])

\* (mutant) the alias is left as it was resolved
ff_pointed_keep_alias(w, props) ==
    /\ Returned(w, "points")
    /\ LET f == [ff[w] EXCEPT !.up = props]
           default_key == format_location_key(props.city, props.state)
           location_key == derive_location_key(f.pref, f.cached, default_key)
       IN  Step(w, IF ret[w].st = "raise" THEN Failed(ff[w], ret[w], ErrPointsHttp)
                   ELSE IF ~props.forecast THEN Abort(ff[w], ErrNoForecastUrl)
                   ELSE IF location_key = "" THEN Abort(f, ErrLocation)
                   ELSE [f EXCEPT !.key = location_key, !.pc = "forecast"])

\* lines 1013-1044: the handlers of the points fetch, the forecast URL, the
\* location key; props is what the point metadata holds
ff_pointed(w, props) ==
    /\ Returned(w, "points")
    /\ LET f == [ff[w] EXCEPT !.up = props]
           default_key == format_location_key(props.city, props.state)
           location_key == derive_location_key(f.pref, f.cached, default_key)
       IN  Step(w, IF ret[w].st = "raise" THEN Failed(ff[w], ret[w], ErrPointsHttp)
                   ELSE IF ~props.forecast THEN Abort(ff[w], ErrNoForecastUrl)
                   ELSE IF location_key = "" THEN Abort(f, ErrLocation)
                   ELSE [f EXCEPT !.key = location_key,
                                  !.pc = IF f.cached # location_key THEN "alias"
                                                                    ELSE "forecast"])

\* line 1044
ff_alias(w) ==
    /\ At(w, "alias")
    /\ register_location_alias(w, format_coordinate_alias(ff[w].lat, ff[w].lon), ff[w].key)

ff_aliased(w) ==
    /\ Returned(w, "alias")
    /\ Step(w, IF ret[w].st = "raise" THEN Abort(ff[w], ret[w].err)
               ELSE [ff[w] EXCEPT !.pc = "forecast"])

\* lines 1047-1055
ff_forecast(w) ==
    /\ At(w, "forecast")
    /\ cached_get_json(w, location_group_key(ff[w].key), "u1", MaxTtl, FALSE)

\* lines 1056-1064; periods: whether the forecast holds any period
ff_forecasted(w, periods) ==
    /\ Returned(w, "forecast")
    /\ Step(w, IF ret[w].st = "raise" THEN Failed(ff[w], ret[w], ErrForecastHttp)
               ELSE IF ~periods THEN Abort(ff[w], ErrNoPeriods)
               ELSE ToHourly(ff[w]))

\* lines 1079-1085
ff_hourly(w) ==
    /\ At(w, "hourly")
    /\ cached_get_json(w, location_group_key(ff[w].key), "u2", MaxTtl, FALSE)

\* (mutant) a failed hourly fetch ends the request
ff_hourlied_strict(w) ==
    /\ Returned(w, "hourly")
    /\ Step(w, IF ret[w].st = "raise" THEN Failed(ff[w], ret[w], ErrHourly)
               ELSE ToStations(ff[w]))

\* lines 1086-1102
ff_hourlied(w) ==
    /\ Returned(w, "hourly")
    /\ Step(w, IF ret[w].st # "raise" THEN ToStations(ff[w])
               ELSE IF ret[w].err = "HTTPError"
                    THEN ToStations([ff[w] EXCEPT !.hourly_error = ErrHourly])
               ELSE IF ret[w].err = "RequestException"
                    THEN ToStations([ff[w] EXCEPT !.hourly_error = ErrUnreachable])
               ELSE Abort(ff[w], ret[w].err))

\* lines 1113-1118
ff_stations(w) ==
    /\ At(w, "stations")
    /\ cached_get_json(w, "points_api", "u3", MaxTtl, FALSE)

\* lines 1119-1126, 1177-1180: the list names one station; a failed fetch
\* leaves the observation fields None
ff_stationed(w) ==
    /\ Returned(w, "stations")
    /\ Step(w, IF ret[w].st # "raise" THEN [ff[w] EXCEPT !.pc = "obs"]
               ELSE IF ret[w].err \in HttpErrors THEN ToAlerts(ff[w])
               ELSE Abort(ff[w], ret[w].err))

\* lines 1131-1139
ff_obs(w) ==
    /\ At(w, "obs")
    /\ cached_get_json(w, location_group_key(ff[w].key), "u4", 1, FALSE)

\* lines 1140-1176; dated: whether the observation holds a timestamp that parses
ff_observed(w, dated) ==
    /\ Returned(w, "obs")
    /\ Step(w, IF ret[w].st # "raise" THEN ToAlerts([ff[w] EXCEPT !.observed = dated])
               ELSE IF ret[w].err \in HttpErrors THEN ToAlerts(ff[w])
               ELSE Abort(ff[w], ret[w].err))

\* lines 1186-1194
ff_alerts(w) ==
    /\ At(w, "alerts")
    /\ cached_get_json(w, location_group_key(ff[w].key), "u5", MaxTtl, FALSE)

\* lines 1195-1240; zone: whether an active alert names an affected zone
ff_alerted(w, zone) ==
    /\ Returned(w, "alerts")
    /\ Step(w, IF ret[w].st # "raise"
               THEN [ff[w] EXCEPT !.pc = IF zone THEN "zone" ELSE "register"]
               ELSE IF ret[w].err = "HTTPError"
                    THEN [ff[w] EXCEPT !.alerts_error = ErrAlerts, !.pc = "register"]
               ELSE IF ret[w].err = "RequestException"
                    THEN [ff[w] EXCEPT !.alerts_error = ErrUnreachable, !.pc = "register"]
               ELSE Abort(ff[w], ret[w].err))

\* _fetch_alert_zone, lines 285-291
ff_zone(w) ==
    /\ At(w, "zone")
    /\ cached_get_json(w, "alert_zones", "z1", MaxTtl, FALSE)

\* _fetch_alert_zone lines 292-295, _build_alert_areas lines 366-446: a zone
\* with a geometry is located; one without, and the area description of a zone
\* that could not be fetched, go to geocode_place
ff_zoned(w, geometry) ==
    /\ Returned(w, "zone")
    /\ Step(w, IF ret[w].st # "raise"
               THEN IF geometry THEN [ff[w] EXCEPT !.areas = TRUE, !.pc = "register"]
                    ELSE [ff[w] EXCEPT !.pc = "geocode"]
               ELSE IF ret[w].err \in HttpErrors THEN [ff[w] EXCEPT !.pc = "geocode"]
               ELSE Abort(ff[w], ret[w].err))

\* geocode_place, lines 135-147
ff_geocode(w) ==
    /\ At(w, "geocode")
    /\ cached_get_json(w, "geocode_places", "q1", MaxTtl, TRUE)

\* geocode_place, lines 148-164: (None, None) on a failed request
ff_geocoded(w) ==
    /\ Returned(w, "geocode")
    /\ Step(w, IF ret[w].st # "raise" THEN [ff[w] EXCEPT !.areas = TRUE, !.pc = "register"]
               ELSE IF ret[w].err \in HttpErrors THEN [ff[w] EXCEPT !.pc = "register"]
               ELSE Abort(ff[w], ret[w].err))

\* (mutant) the location is not registered
ff_register_skip(w) ==
    /\ At(w, "register")
    /\ register_location(w, "", "", ff[w].lat, ff[w].lon)

\* lines 1244-1245
ff_register(w) ==
    /\ At(w, "register")
    /\ register_location(w, ff[w].key, "", ff[w].lat, ff[w].lon)

\* lines 1247-1328: the record is assembled and returned with no error
ff_registered(w) ==
    /\ Returned(w, "register")
    /\ Step(w, IF ret[w].st = "raise" THEN Abort(ff[w], ret[w].err)
               ELSE [ff[w] EXCEPT !.pc = "done", !.record = TRUE])

\* no geocode_address or geocode_place call; strings that are matched or
\* sliced are sequences of characters
NoGeocode == [fn |-> "none", pc |-> "none", mark |-> 0, present |-> FALSE, address |-> << >>,
              query |-> << >>, zip |-> << >>, sent |-> << >>, first |-> "", res |-> "",
              lat |-> FALSE, lon |-> FALSE, city |-> FALSE, state |-> FALSE,
              display |-> FALSE, error |-> "", raised |-> ""]
\* no _build_alert_areas call
NoAreas == [pc |-> "none", input |-> << >>, output |-> << >>]

\* ------------------------------------------------------------- geocode_service
\* the messages geocode_address returns
ErrNoAddress == "Enter an address or ZIP code."
ErrGeoHttp == "Geocoding service returned an error."
ErrGeoUnreachable == "Could not reach the geocoding service."
ErrNoResults == "No results found for that address or ZIP code."
ErrNoCoords == "No coordinates returned for that address or ZIP code."

DigitChars == {"0", "1", "2", "3", "4", "5", "6", "7", "8", "9"}
IsDigits(s) == \A i \in 1..Len(s) : s[i] \in DigitChars

\* str.strip() on a sequence of characters
RECURSIVE LStrip(_)
LStrip(s) == IF s # << >> /\ Head(s) = " " THEN LStrip(Tail(s)) ELSE s
RECURSIVE RStrip(_)
RStrip(s) == IF s # << >> /\ s[Len(s)] = " " THEN RStrip(SubSeq(s, 1, Len(s) - 1)) ELSE s
StripSeq(s) == RStrip(LStrip(s))

\* the characters as one string (an f-string, a request parameter)
RECURSIVE Text(_)
Text(s) == IF s = << >> THEN "" ELSE Head(s) \o Text(Tail(s))

\* ZIP_RE = ^\d{5}(?:-\d{4})?$ and ZIP9_RE = ^\d{9}$
ZIP_RE(s) ==
    \/ Len(s) = 5 /\ IsDigits(s)
    \/ Len(s) = 10 /\ IsDigits(SubSeq(s, 1, 5)) /\ s[6] = "-" /\ IsDigits(SubSeq(s, 7, 10))
ZIP9_RE(s) == Len(s) = 9 /\ IsDigits(s)

\* (mutant) nine digits in a row are no ZIP code
normalize_zip_plain(query) == IF ZIP_RE(query) THEN query ELSE << >>
\* _normalize_zip: the query, "DDDDD-DDDD" for nine digits, or None (<< >>)
normalize_zip(query) ==
    IF ZIP_RE(query) THEN query
    ELSE IF ZIP9_RE(query) THEN SubSeq(query, 1, 5) \o <<"-">> \o SubSeq(query, 6, 9)
    ELSE << >>

\* the fingerprints of the three requests of geocode_address and of the request
\* of geocode_place
PostalKey(zip) == "postalcode=" \o Text(zip)
ZipTextKey(zip) == "q=" \o Text(zip) \o " USA"
TextKey(query) == "q=" \o Text(query)

\* the worker is at call site p of its geocode call; the call made there has returned
GAt(w, p) == gc[w].pc = p /\ ncalls[w] = gc[w].mark
GReturned(w, p) == gc[w].pc = p /\ ncalls[w] = gc[w].mark + 1 /\ pc[w] = "idle"
\* the geocode call runs on to its next call site or to its return
GStep(w, f) ==
    /\ gc' = [gc EXCEPT ![w] = [f EXCEPT !.mark = ncalls[w]]]
    /\ UNCHANGED <<cacheVars, ff, areas>>

\* return None, ..., None, <message>
GError(f, e) == [f EXCEPT !.pc = "done", !.error = e]
\* an exception no handler of the function catches
GRaise(f, e) == [f EXCEPT !.pc = "done", !.raised = e]
\* the except clauses of geocode_address, lines 105-108
GFailed(f, r) ==
    IF r.err = "HTTPError" THEN GError(f, ErrGeoHttp)
    ELSE IF r.err = "RequestException" THEN GError(f, ErrGeoUnreachable)
    ELSE GRaise(f, r.err)

\* (mutant) the display name comes back with the error
ga_finish_partial(f, res) ==
    IF res = "empty" THEN GError(f, ErrNoResults)
    ELSE IF res = "nocoords" THEN [GError(f, ErrNoCoords) EXCEPT !.display = TRUE]
    ELSE [f EXCEPT !.pc = "done", !.lat = TRUE, !.lon = TRUE, !.display = TRUE,
                   !.city = (res = "full"), !.state = (res = "full")]
\* lines 110-125: res is what the results hold: nothing, a first result without
\* lat or lon, one without city and state, or a full one
ga_finish(f, res) ==
    IF res = "empty" THEN GError(f, ErrNoResults)
    ELSE IF res = "nocoords" THEN GError(f, ErrNoCoords)
    ELSE [f EXCEPT !.pc = "done", !.lat = TRUE, !.lon = TRUE, !.display = TRUE,
                   !.city = (res = "full"), !.state = (res = "full")]

\* lines 57-64: None or a blank address is refused; else the ZIP code decides
\* which request comes first
ga_start(w, present, address) ==
    /\ gc[w].pc = "none"
    /\ pc[w] = "idle"
    /\ LET f == [NoGeocode EXCEPT !.fn = "geocode_address", !.mark = ncalls[w],
                                  !.present = present,
                                  !.address = IF present THEN address ELSE << >>]
           query == StripSeq(address)
           zip_code == normalize_zip(query)
       IN  gc' = [gc EXCEPT ![w] =
                     IF ~present \/ query = << >> THEN GError(f, ErrNoAddress)
                     ELSE [f EXCEPT !.query = query, !.zip = zip_code,
                                    !.pc = IF zip_code # << >> THEN "zip" ELSE "free"]]
    /\ UNCHANGED <<cacheVars, ff, areas>>

\* lines 68-81
ga_zip(w) ==
    /\ GAt(w, "zip")
    /\ cached_get_json(w, "geocode", PostalKey(gc[w].zip), MaxTtl, TRUE)

\* line 82, lines 105-108
ga_zipped(w, res) ==
    /\ GReturned(w, "zip")
    /\ LET f == [gc[w] EXCEPT !.sent = Append(@, ret[w].arg)] IN
       GStep(w, IF ret[w].st = "raise" THEN GFailed([f EXCEPT !.first = "error"], ret[w])
                ELSE IF res = "empty" THEN [f EXCEPT !.first = res, !.pc = "text"]
                ELSE ga_finish([f EXCEPT !.first = res, !.res = res], res))

\* lines 83-94
ga_text(w) ==
    /\ GAt(w, "text")
    /\ cached_get_json(w, "geocode", ZipTextKey(gc[w].zip), MaxTtl, TRUE)

ga_texted(w, res) ==
    /\ GReturned(w, "text")
    /\ LET f == [gc[w] EXCEPT !.sent = Append(@, ret[w].arg)] IN
       GStep(w, IF ret[w].st = "raise" THEN GFailed(f, ret[w])
                ELSE ga_finish([f EXCEPT !.res = res], res))

\* lines 95-104
ga_free(w) ==
    /\ GAt(w, "free")
    /\ cached_get_json(w, "geocode", TextKey(gc[w].query), MaxTtl, TRUE)

ga_freed(w, res) ==
    /\ GReturned(w, "free")
    /\ LET f == [gc[w] EXCEPT !.sent = Append(@, ret[w].arg)] IN
       GStep(w, IF ret[w].st = "raise" THEN GFailed([f EXCEPT !.first = "error"], ret[w])
                ELSE ga_finish([f EXCEPT !.first = res, !.res = res], res))

\* geocode_place, lines 129-133
gp_start(w, present, query) ==
    /\ gc[w].pc = "none"
    /\ pc[w] = "idle"
    /\ LET f == [NoGeocode EXCEPT !.fn = "geocode_place", !.mark = ncalls[w],
                                  !.present = present,
                                  !.address = IF present THEN query ELSE << >>]
           cleaned == StripSeq(query)
       IN  gc' = [gc EXCEPT ![w] =
                     IF ~present \/ cleaned = << >> THEN [f EXCEPT !.pc = "done"]
                     ELSE [f EXCEPT !.query = cleaned, !.pc = "place"]]
    /\ UNCHANGED <<cacheVars, ff, areas>>

\* geocode_place, lines 134-147
gp_place(w) ==
    /\ GAt(w, "place")
    /\ cached_get_json(w, "geocode_places", TextKey(gc[w].query), MaxTtl, TRUE)

\* geocode_place, lines 148-164: the two except clauses; results[0] of a JSON
\* object raises KeyError; a lat or lon that is no number is caught
gp_placed(w, res) ==
    /\ GReturned(w, "place")
    /\ LET f == [gc[w] EXCEPT !.sent = Append(@, ret[w].arg), !.res = res] IN
       GStep(w, IF ret[w].st = "raise"
                THEN IF ret[w].err \in HttpErrors THEN [gc[w] EXCEPT !.pc = "done",
                                                                     !.sent = Append(@, ret[w].arg)]
                     ELSE GRaise([gc[w] EXCEPT !.sent = Append(@, ret[w].arg)], ret[w].err)
                ELSE IF res = "object" THEN GRaise(f, "KeyError")
                ELSE IF res = "full" THEN [f EXCEPT !.pc = "done", !.lat = TRUE, !.lon = TRUE]
                ELSE [f EXCEPT !.pc = "done"])

\* the program's state at import, but for the alert areas at hand
InitCalls ==
    /\ now = 0
    /\ ff = [w \in Workers |-> NoFetch]
    /\ gc = [w \in Workers |-> NoGeocode]
    /\ fd = [w \in Workers |-> 0]
    /\ pos = [w \in Workers |-> 0]
    /\ lock = [p \in Procs |-> 0]
    /\ pc = [w \in Workers |-> "idle"]
    /\ op = [w \in Workers |-> NoOp]
    /\ cache = [w \in Workers |-> NoCache]
    /\ ret = [w \in Workers |-> RetNone]
    /\ ncalls = [w \in Workers |-> 0]
    /\ upstreamCalls = 0
    /\ lastStore = NoStore
    /\ tlock = 0
    /\ lastReq = 0
    /\ wake = [w \in Workers |-> 0]
    /\ issued = << >>

InitCommon ==
    /\ InitCalls
    /\ areas = NoAreas

\* the file is missing (first run) or holds the store of an earlier run
InitFile ==
    \/ FileMissing /\ lastAlias = [a \in AliasKeys |-> NoAlias]
    \/ FileContent(Serialize(SeedStore)) /\ lastAlias = SeedAlias

\* ------------------------------------------------------------- Spec
\* One process with two threads; no file operation fails.
Init ==
    /\ InitCommon
    /\ InitFile
    /\ procOf = [w \in Workers |-> 1]
    /\ faults = FALSE
    /\ budget = MaxOps

Next ==
    \/ \E w \in Workers :
         \/ \E a \in AliasKeys : resolve_location_alias(w, a)
         \/ \E a \in AliasKeys, k \in LocationKeys : register_location_alias(w, a, k)
         \/ \E k \in {"K1"}, lat \in Lats, lon \in Lons : register_location(w, k, "", lat, lon)
         \/ list_cached_locations(w)
         \/ \E k \in {"K1"} : clear_location_cache(w, k)
         \/ \E k \in {"K1"} : delete_location_cache(w, k)
         \/ clear_cache(w)
         \/ \E f \in Fingerprints, ttl \in {1, MaxTtl} :
               cached_get_json(w, f[1], f[2], ttl, FALSE)
         \/ cg_lookup(w)
         \/ \E o \in {"ok", "HTTPError"} : cg_http(w, o)
         \/ cg_store(w)
         \/ write_cache_file(w)
    \/ Tick

Spec == Init /\ [][Next]_vars

\* ------------------------------------------------------------- SpecFault
\* One process with two threads; file operations may fail and the process may
\* die at any step; _write_cache_file runs step by step.
InitFault ==
    /\ InitCommon
    /\ InitFile
    /\ procOf = [w \in Workers |-> 1]
    /\ faults = TRUE
    /\ budget = MaxOps

NextFault ==
    \/ \E w \in Workers :
         \/ \E a \in AliasKeys : resolve_location_alias(w, a)
         \/ \E a \in AliasKeys, k \in LocationKeys : register_location_alias(w, a, k)
         \/ clear_cache(w)
         \/ \E f \in {<<"loc:K1", "u1">>} : cached_get_json(w, f[1], f[2], MaxTtl, FALSE)
         \/ cg_lookup(w)
         \/ \E o \in {"ok", "RequestException"} : cg_http(w, o)
         \/ cg_store(w)
         \/ wr_mkdir(w)
         \/ wr_open(w)
         \/ wr_write(w)
         \/ wr_replace(w)
    \/ Crash(1)
    \/ Tick

SpecFault == InitFault /\ [][NextFault]_vars

\* ------------------------------------------------------------- SpecMalformed
\* One process with two threads, started on a cache file that was not written
\* by the program: cut short, not an object, or an object whose members have
\* the wrong shape.
Other == [shape |-> "other", map |-> EmptyMap]
Absent == [shape |-> "absent", map |-> EmptyMap]
BadEntries ==
    {[shape |-> "null", expires_at |-> 0, value |-> -1],
     [shape |-> "other", expires_at |-> 0, value |-> -1]}
MalformedStores ==
    {[SeedStore EXCEPT !.root = "array"]}
    \cup {[SeedStore EXCEPT !.meta = [shape |-> sh, date |-> NoDate]] : sh \in {"other", "absent"}}
    \cup {[SeedStore EXCEPT !.groups = m] : m \in {Other, Absent}}
    \cup {[SeedStore EXCEPT !.locations = m] : m \in {Other, Absent}}
    \cup {[SeedStore EXCEPT !.aliases = m] : m \in {Other, Absent}}
    \cup {[SeedStore EXCEPT !.groups.map["loc:K1"] = [shape |-> "other", entries |-> EmptyMap]]}
    \cup {[SeedStore EXCEPT !.groups.map["loc:K1"].entries["u2"] = e] : e \in BadEntries}
    \cup {[SeedStore EXCEPT !.locations.map["K1"] =
               [shape |-> "other", label |-> "", lat |-> 0, lon |-> 0, updated_at |-> 0]]}
MalformedFiles ==
    {<< >>, SubSeq(Serialize(SeedStore), 1, NumParts - 1)}
    \cup {Serialize(d) : d \in MalformedStores}

InitMalformed ==
    /\ InitCommon
    /\ \E c \in MalformedFiles : FileContent(c)
    /\ lastAlias = [a \in AliasKeys |-> NoAlias]
    /\ procOf = [w \in Workers |-> 1]
    /\ faults = FALSE
    /\ budget = MaxOps

NextMalformed ==
    \/ \E w \in Workers :
         \/ \E a \in AliasKeys : resolve_location_alias(w, a)
         \/ \E a \in AliasKeys : register_location_alias(w, a, "K2")
         \/ \E lat \in Lats, lon \in Lons : register_location(w, "K1", "", lat, lon)
         \/ list_cached_locations(w)
         \/ clear_location_cache(w, "K1")
         \/ delete_location_cache(w, "K1")
         \/ \E f \in {<<"loc:K1", "u1">>} : cached_get_json(w, f[1], f[2], MaxTtl, FALSE)
         \/ cg_lookup(w)
         \/ cg_http(w, "ok")
         \/ cg_store(w)
         \/ write_cache_file(w)
    \/ Tick

SpecMalformed == InitMalformed /\ [][NextMalformed]_vars

\* ------------------------------------------------------------- SpecProcs
\* Two processes of one thread each, each with its own CACHE_LOCK, on the same
\* cache file and the same temp path; no file operation fails.
InitProcs ==
    /\ InitCommon
    /\ InitFile
    /\ procOf = [w \in Workers |-> w]
    /\ faults = FALSE
    /\ budget = MaxOps

NextProcs ==
    \/ \E w \in Workers :
         \/ \E a \in AliasKeys : resolve_location_alias(w, a)
         \/ \E a \in AliasKeys, k \in LocationKeys : register_location_alias(w, a, k)
         \/ \E lat \in Lats, lon \in Lons : register_location(w, "K2", "", lat, lon)
         \/ wr_mkdir(w)
         \/ wr_open(w)
         \/ wr_write(w)
         \/ wr_replace(w)
    \/ Tick

SpecProcs == InitProcs /\ [][NextProcs]_vars

\* ------------------------------------------------------------- SpecThrottle
\* One process with two threads geocoding: every cached_get_json passes
\* throttle=_throttle_nominatim.
GeocodeQueries == {"q1", "q2"}

NextThrottle ==
    \/ \E w \in Workers :
         \/ \E q \in GeocodeQueries : cached_get_json(w, "geocode", q, MaxTtl, TRUE)
         \/ cg_lookup(w)
         \/ throttle_nominatim(w)
         \/ th_wake(w)
         \/ \E o \in {"ok", "HTTPError"} : cg_http(w, o)
         \/ cg_store(w)
         \/ write_cache_file(w)
    \/ Tick

SpecThrottle == Init /\ [][NextThrottle]_vars

\* ------------------------------------------------------------- SpecAlias
\* One process with two threads on the alias registry alone, from a first run
\* (no cache file), with one call more than the other specifications make.
InitAlias ==
    /\ InitCommon
    /\ FileMissing /\ lastAlias = [a \in AliasKeys |-> NoAlias]
    /\ procOf = [w \in Workers |-> 1]
    /\ faults = FALSE
    /\ budget = MaxOps + 1

NextAlias ==
    \/ \E w \in Workers :
         \/ \E a \in AliasKeys : resolve_location_alias(w, a)
         \/ \E a \in AliasKeys, k \in LocationKeys : register_location_alias(w, a, k)
         \/ list_cached_locations(w)
         \/ clear_cache(w)
         \/ write_cache_file(w)
    \/ Tick

SpecAlias == InitAlias /\ [][NextAlias]_vars

\* ------------------------------------------------------------- SpecRegistry
\* One process with two threads on a store that holds two locations: their
\* records, their groups and an entry of the points group.  Keys may be empty.
SeedRegistry ==
    [SeedStore EXCEPT
        !.locations.map = Put(@, "K2", LocationRecord("K2", 40, -80, 0)),
        !.groups.map = Put(Put(@, "loc:K2", Group(Put(EmptyMap, "u1", Entry(DayLen + 1, 0)))),
                           "points_api", Group(Put(EmptyMap, "u0", Entry(DayLen + 1, 0))))]

InitRegistry ==
    /\ InitCommon
    /\ FileContent(Serialize(SeedRegistry)) /\ lastAlias = SeedAlias
    /\ procOf = [w \in Workers |-> 1]
    /\ faults = FALSE
    /\ budget = MaxOps

NextRegistry ==
    \/ \E w \in Workers :
         \/ \E a \in AliasKeys : resolve_location_alias(w, a)
         \/ \E a \in AliasKeys \cup {""}, k \in {"K2", ""} : register_location_alias(w, a, k)
         \/ \E lat \in Lats, lon \in Lons : register_location(w, "K2", "", lat, lon)
         \/ list_cached_locations(w)
         \/ \E k \in LocationKeys : clear_location_cache(w, k)
         \/ \E k \in LocationKeys : delete_location_cache(w, k)
         \/ clear_cache(w)
         \/ cached_get_json(w, "loc:K1", "u2", MaxTtl, FALSE)
         \/ cg_lookup(w)
         \/ \E o \in {"ok", "HTTPError", "RequestException"} : cg_http(w, o)
         \/ cg_store(w)
         \/ write_cache_file(w)
    \/ Tick

SpecRegistry == InitRegistry /\ [][NextRegistry]_vars

\* ------------------------------------------------------------- SpecForecast
\* One request thread runs fetch_forecast once, from a first run or from the
\* store of an earlier run that aliased the coordinates to K1; every upstream
\* request may fail; no file operation fails.
CallSites == {"resolve", "points", "alias", "forecast", "hourly", "stations", "obs",
              "alerts", "zone", "geocode", "register"}
Fetchers == {1}
ForecastLats == {40, 91, -91}
ForecastLons == {-80, 181, -181}
\* (preferred_location_key, preferred_city, preferred_state)
PreferredInputs == {<<"", "", "">>, <<"K2", "", "">>, <<" ", " Erie", "PA">>}
\* the properties of the point metadata: all present, or one of them missing
FullPoints == [forecast |-> TRUE, hourly |-> TRUE, stations |-> TRUE, city |-> "Erie",
               state |-> "PA"]
PointsProps == {FullPoints, [FullPoints EXCEPT !.forecast = FALSE],
                [FullPoints EXCEPT !.hourly = FALSE], [FullPoints EXCEPT !.stations = FALSE],
                [FullPoints EXCEPT !.city = ""]}

InitForecast ==
    /\ InitCommon
    /\ InitFile
    /\ procOf = [w \in Workers |-> 1]
    /\ faults = FALSE
    /\ budget = Cardinality(CallSites)

NextForecast ==
    \/ \E w \in Fetchers :
         \/ \E valid \in BOOLEAN, lat \in ForecastLats, lon \in ForecastLons,
               p \in PreferredInputs, inc \in BOOLEAN :
               ff_start(w, valid, lat, lon, p[1], p[2], p[3], inc, inc)
         \/ ff_resolve(w)
         \/ ff_resolved(w)
         \/ ff_points(w)
         \/ \E props \in PointsProps : ff_pointed(w, props)
         \/ ff_alias(w)
         \/ ff_aliased(w)
         \/ ff_forecast(w)
         \/ \E periods \in BOOLEAN : ff_forecasted(w, periods)
         \/ ff_hourly(w)
         \/ ff_hourlied(w)
         \/ ff_stations(w)
         \/ ff_stationed(w)
         \/ ff_obs(w)
         \/ \E dated \in BOOLEAN : ff_observed(w, dated)
         \/ ff_alerts(w)
         \/ \E zone \in BOOLEAN : ff_alerted(w, zone)
         \/ ff_zone(w)
         \/ \E geometry \in BOOLEAN : ff_zoned(w, geometry)
         \/ ff_geocode(w)
         \/ ff_geocoded(w)
         \/ ff_register(w)
         \/ ff_registered(w)
         \/ cg_lookup(w)
         \/ throttle_nominatim(w)
         \/ th_wake(w)
         \/ \E o \in {"ok"} \cup HttpErrors : cg_http(w, o)
         \/ cg_store(w)
         \/ write_cache_file(w)
    \/ (\E w \in Fetchers : pc[w] = "th_sleep") /\ Tick

SpecForecast == InitForecast /\ [][NextForecast]_vars

\* ------------------------------------------------------------- SpecPurgeFetch
\* The store of an earlier run aliases the coordinates to K1; one thread purges
\* K1 once (the /refresh route) while another runs fetch_forecast once.
Purgers == {2}

InitPurgeFetch ==
    /\ InitCommon
    /\ FileContent(Serialize(SeedStore))
    /\ lastAlias = SeedAlias
    /\ procOf = [w \in Workers |-> 1]
    /\ faults = FALSE
    /\ budget = Cardinality(CallSites) + 1

NextPurgeFetch ==
    \/ NextForecast
    \/ \E w \in Purgers :
         \/ ncalls[w] = 0 /\ clear_location_cache(w, "K1")
         \/ ncalls[w] = 0 /\ delete_location_cache(w, "K1")
         \/ write_cache_file(w)

SpecPurgeFetch == InitPurgeFetch /\ [][NextPurgeFetch]_vars

\* ------------------------------------------------------------- SpecGeocode
\* One request thread runs geocode_address or geocode_place once, on a first
\* run; the upstream may fail and, when `faults` is set, so may the file
\* operations of the store; _write_cache_file runs step by step.
Geocoders == {1}
\* addresses: ZIP codes of five, nine and 5+4 digits, one padded with blanks,
\* digits that are no ZIP code, a place name, blanks, nothing
Addresses == {<<"1", "5", "2", "0", "1">>,
              <<"1", "5", "2", "0", "1", "1", "2", "3", "4">>,
              <<"1", "5", "2", "0", "1", "-", "1", "2", "3", "4">>,
              <<" ", "1", "5", "2", "0", "1", " ">>,
              <<"1", "5", "2", "0">>,
              <<"1", "5", "2", "0", "1", "-", "1", "2">>,
              <<"E", "r", "i", "e">>,
              <<" ">>,
              << >>}
AddressResults == {"empty", "nocoords", "nocity", "full"}
PlaceResults == {"empty", "nocoords", "badcoords", "object", "full"}

InitGeocode ==
    /\ InitCommon
    /\ FileMissing
    /\ lastAlias = [a \in AliasKeys |-> NoAlias]
    /\ procOf = [w \in Workers |-> 1]
    /\ faults \in BOOLEAN
    /\ budget = MaxOps

NextGeocode ==
    \/ \E w \in Geocoders :
         \/ \E present \in BOOLEAN, a \in Addresses : ga_start(w, present, a)
         \/ ga_zip(w)
         \/ \E res \in AddressResults : ga_zipped(w, res)
         \/ ga_text(w)
         \/ \E res \in AddressResults : ga_texted(w, res)
         \/ ga_free(w)
         \/ \E res \in AddressResults : ga_freed(w, res)
         \/ \E present \in BOOLEAN, a \in Addresses : gp_start(w, present, a)
         \/ gp_place(w)
         \/ \E res \in PlaceResults : gp_placed(w, res)
         \/ cg_lookup(w)
         \/ throttle_nominatim(w)
         \/ th_wake(w)
         \/ \E o \in {"ok"} \cup HttpErrors : cg_http(w, o)
         \/ cg_store(w)
         \/ wr_mkdir(w)
         \/ wr_open(w)
         \/ wr_write(w)
         \/ wr_replace(w)
    \/ (\E w \in Geocoders : pc[w] = "th_sleep") /\ Tick

SpecGeocode == InitGeocode /\ [][NextGeocode]_vars

\* ------------------------------------------------------------- _build_alert_areas
\* weather_service.py lines 468-494: what _build_alert_areas does to the areas
\* it has collected.  A distance is a whole number of eighths of a mile, so
\* that 0.25 miles is two of them.
\* distance = None, lines 399 and 448
NoDistance == -1
\* line 46
ALERT_AREA_MAX_DISTANCE_MI == 100
Eighths(miles) == 8 * miles
Abs(x) == IF x < 0 THEN 0 - x ELSE x
Known(area) == area.distance # NoDistance

\* the area appended on lines 408-419 and 457-466: no colour, not the closest
NewArea(id, distance) ==
    [id |-> id, distance |-> distance, ratio |-> << >>, is_closest |-> FALSE]

\* lines 468-474
within_limit(list) ==
    SelectSeq(list, LAMBDA area :
        area.distance # NoDistance /\ area.distance <= Eighths(ALERT_AREA_MAX_DISTANCE_MI))

\* line 477
Distances(list) == {list[i].distance : i \in {j \in DOMAIN list : Known(list[j])}}
MinOf(S) == CHOOSE m \in S : \A x \in S : m <= x
MaxOf(S) == CHOOSE m \in S : \A x \in S : m >= x

\* lines 478-491 with only the first of the nearest areas marked
shade_and_mark_one(list) ==
    IF Distances(list) = {} THEN list
    ELSE LET lo == MinOf(Distances(list))
             hi == MaxOf(Distances(list))
             first == MinOf({i \in DOMAIN list : list[i].distance = lo})
         IN [i \in DOMAIN list |->
                IF ~Known(list[i]) THEN list[i]
                ELSE [list[i] EXCEPT
                        !.ratio = IF hi = lo THEN <<0, 1>>
                                  ELSE <<list[i].distance - lo, hi - lo>>,
                        !.is_closest = IF i = first THEN TRUE ELSE @]]

\* lines 478-491: the shade of an area is the ratio (distance - min) over
\* (max - min), kept as numerator and denominator; an area less than 0.25
\* miles from the nearest is the closest
shade_and_mark(list) ==
    IF Distances(list) = {} THEN list
    ELSE LET lo == MinOf(Distances(list))
             hi == MaxOf(Distances(list))
         IN [i \in DOMAIN list |->
                IF ~Known(list[i]) THEN list[i]
                ELSE [list[i] EXCEPT
                        !.ratio = IF hi = lo THEN <<0, 1>>
                                  ELSE <<list[i].distance - lo, hi - lo>>,
                        !.is_closest = IF 4 * Abs(list[i].distance - lo) < Eighths(1)
                                       THEN TRUE ELSE @]]

\* line 493: the key (distance is None, distance or 0), and the stable sort
KeyBefore(a, b) ==
    LET ka == IF Known(a) THEN a.distance ELSE 0
        kb == IF Known(b) THEN b.distance ELSE 0
    IN \/ Known(a) /\ ~Known(b)
       \/ Known(a) = Known(b) /\ ka < kb
RECURSIVE InsertArea(_, _)
InsertArea(sorted, area) ==
    IF sorted = << >> THEN <<area>>
    ELSE IF KeyBefore(area, sorted[Len(sorted)])
         THEN Append(InsertArea(SubSeq(sorted, 1, Len(sorted) - 1), area), sorted[Len(sorted)])
         ELSE Append(sorted, area)
RECURSIVE SortAreas(_)
SortAreas(list) ==
    IF list = << >> THEN << >>
    ELSE InsertArea(SortAreas(SubSeq(list, 1, Len(list) - 1)), list[Len(list)])

\* lines 468-494
build_alert_areas ==
    /\ areas.pc = "collected"
    /\ areas' = [areas EXCEPT !.pc = "done",
                              !.output = SortAreas(shade_and_mark(within_limit(areas.input)))]
    /\ UNCHANGED <<cacheVars, ff, gc>>

\* ------------------------------------------------------------- SpecAreas
\* _build_alert_areas with the areas of one alert collected: up to MaxAreas
\* areas, the distance of each unknown, known and at most 100 miles, or known
\* and beyond.  The list is never empty on line 468: with no zone and no name
\* in the description the function has returned on line 437.
MaxAreas == 3
AreaDistances == {NoDistance, 0, 1, 2, 3, Eighths(ALERT_AREA_MAX_DISTANCE_MI),
                  Eighths(ALERT_AREA_MAX_DISTANCE_MI) + 1}
AreaLists ==
    UNION {{[i \in 1..n |-> NewArea(i, f[i])] : f \in [1..n -> AreaDistances]} : n \in 1..MaxAreas}

InitAreas ==
    /\ InitCalls
    /\ FileMissing
    /\ lastAlias = [a \in AliasKeys |-> NoAlias]
    /\ procOf = [w \in Workers |-> 1]
    /\ faults = FALSE
    /\ budget = 0
    /\ areas \in [pc : {"collected"}, input : AreaLists, output : {<< >>}]

NextAreas == build_alert_areas

SpecAreas == InitAreas /\ [][NextAreas]_vars

\* ------------------------------------------------------------- SpecLocks
\* One process with two threads that geocode (throttled), fetch, register, list
\* and purge, from a first run or the store of an earlier run.
NextLocks ==
    \/ \E w \in Workers :
         \/ \E a \in AliasKeys : resolve_location_alias(w, a)
         \/ \E a \in AliasKeys : register_location_alias(w, a, "K2")
         \/ \E lat \in Lats, lon \in Lons : register_location(w, "K2", "", lat, lon)
         \/ list_cached_locations(w)
         \/ clear_location_cache(w, "K1")
         \/ delete_location_cache(w, "K1")
         \/ cached_get_json(w, "geocode", "q1", MaxTtl, TRUE)
         \/ cached_get_json(w, "loc:K1", "u2", 1, FALSE)
         \/ cg_lookup(w)
         \/ throttle_nominatim(w)
         \/ th_wake(w)
         \/ \E o \in {"ok"} \cup HttpErrors : cg_http(w, o)
         \/ cg_store(w)
         \/ write_cache_file(w)
    \/ Tick

SpecLocks == Init /\ [][NextLocks]_vars

\* ------------------------------------------------------------- SpecPrune
\* One process with two threads fetching into the group loc:K1, from a store
\* whose entries all expire at time 1: two in loc:K1, one in points_api.
SeedPrune ==
    [empty_cache(0) EXCEPT
        !.groups.map = Put(Put(EmptyMap, "loc:K1",
                               Group(Put(Put(EmptyMap, "u1", Entry(1, 0)), "u2", Entry(1, 0)))),
                           "points_api", Group(Put(EmptyMap, "u0", Entry(1, 0))))]

InitPrune ==
    /\ InitCommon
    /\ FileContent(Serialize(SeedPrune))
    /\ lastAlias = [a \in AliasKeys |-> NoAlias]
    /\ procOf = [w \in Workers |-> 1]
    /\ faults = FALSE
    /\ budget = MaxOps

NextPrune ==
    \/ \E w \in Workers :
         \/ \E k \in {"u2", "u3"}, ttl \in {1, MaxTtl} :
               cached_get_json(w, "loc:K1", k, ttl, FALSE)
         \/ cg_lookup(w)
         \/ \E o \in {"ok"} \cup HttpErrors : cg_http(w, o)
         \/ cg_store(w)
         \/ write_cache_file(w)
    \/ Tick

SpecPrune == InitPrune /\ [][NextPrune]_vars

\* ------------------------------------------------------------- properties
\* the document the cache file holds, when it holds one
HasStore == fs[CACHE_FILE] # 0 /\ ParseOk(Content(CACHE_FILE))
Persisted == IF HasStore THEN Content(CACHE_FILE)[1].doc ELSE NoCache
\* the stored epoch date is not today's
Stale == HasStore /\ Persisted.meta.date # today_key
\* the entry stored for (g, k), if any
HasEntry(d, g, k) ==
    /\ g \in DOMAIN d.groups.map
    /\ k \in DOMAIN d.groups.map[g].entries
EntryOf(d, g, k) == d.groups.map[g].entries[k]
\* worker w starts a call, or runs a locked section of cached_get_json, in this step
Acts(w) ==
    \/ ncalls'[w] # ncalls[w]
    \/ pc[w] \in {"cg_lookup", "cg_store"} /\ pc'[w] # pc[w]

\* what w returns carries nothing stored (no alias, no location, no cached
\* payload), and the store it goes on to write holds only what its own operation
\* adds, dated today
C1_Discarded(w) ==
    /\ pc'[w] = "idle" => ret'[w].key = "" /\ ret'[w].keys = {} /\ ret'[w].val = -1
    /\ pc'[w] = "wr_mkdir" =>
         LET c == cache'[w]
             o == op'[w]
         IN  /\ c.meta.date = today_key
             /\ c.aliases.map = IF o.name = "register_location_alias"
                                THEN Put(EmptyMap, o.alias, o.loc) ELSE EmptyMap
             /\ DOMAIN c.locations.map = IF o.name = "register_location" THEN {o.loc} ELSE {}
             /\ c.groups.map = IF o.name = "cached_get_json"
                               THEN Put(EmptyMap, o.group,
                                        Group(Put(EmptyMap, o.key, Entry(now + o.ttl, o.data))))
                               ELSE EmptyMap

\* C1: when the stored epoch date differs from today's, a cache-backed operation
\* discards every group, location record and alias stored before: what it returns
\* carries nothing stored, and the store it goes on to write holds only what the
\* operation itself adds, dated today.
C1_EpochRollover ==
    [][\A w \in Workers : (Stale /\ Acts(w)) => C1_Discarded(w)]_vars

\* C1 witness: on a later day a lookup has missed (the request goes upstream)
\* although the file still holds the entry, unexpired, and the alias has resolved
\* to nothing although the file still holds it.
C1_Witness ==
    \E w \in Workers, v \in Workers :
        /\ Stale
        /\ pc[w] = "cg_http"
        /\ HasEntry(Persisted, op[w].group, op[w].key)
        /\ EntryOf(Persisted, op[w].group, op[w].key).expires_at > now
        /\ op[w].lnow \div DayLen # Persisted.meta.date
        /\ pc[v] = "idle"
        /\ ret[v].name = "resolve_location_alias" /\ ret[v].key = ""
        /\ ret[v].arg \in DOMAIN Persisted.aliases.map
        /\ ret[v].seq > 1

\* the outcome of w's lookup against the entry the file holds
C2_LookupStep(w) ==
    LET g == op[w].group
        k == op[w].key
        usable == /\ HasStore /\ ~Stale /\ HasEntry(Persisted, g, k)
                  /\ EntryOf(Persisted, g, k).expires_at > op[w].lnow
    IN  /\ usable => /\ pc'[w] = "idle"
                     /\ ret'[w].st = "ok"
                     /\ ret'[w].val = EntryOf(Persisted, g, k).value
                     /\ upstreamCalls' = upstreamCalls
        /\ ~usable => pc'[w] = "cg_http"
        /\ fs' = fs /\ inodes' = inodes

\* C2: the lookup of cached_get_json returns the stored value, without contacting
\* the upstream, exactly when the entry exists (on the store's day) and its
\* expires_at is strictly greater than now; otherwise the request goes upstream;
\* the lookup itself never changes the file.
C2_FreshOnly ==
    [][\A w \in Workers : (pc[w] = "cg_lookup" /\ pc'[w] # "cg_lookup") => C2_LookupStep(w)]_vars

\* C2 witness: a request has gone upstream for an entry that expired exactly now,
\* and the expired entry is still in the file.
C2_Witness ==
    \E w \in Workers :
        /\ pc[w] = "cg_http"
        /\ ~Stale
        /\ HasEntry(Persisted, op[w].group, op[w].key)
        /\ EntryOf(Persisted, op[w].group, op[w].key).expires_at = op[w].lnow

\* the lookup is made within the TTL window of the payload lastStore
InWindow(w) == op[w].lnow < lastStore.exp /\ now < lastStore.exp

\* the call looking up now directly follows the call that stored lastStore:
\* no other call ran between or beside them
Consecutive(w) ==
    /\ lastStore.quiet
    /\ lastStore.seq + 1 = Total
    /\ op[w].seq = Total
    /\ lastStore.group = op[w].group /\ lastStore.key = op[w].key
\* the second call is served from the cache
C3_Served(w) ==
    /\ pc'[w] = "idle"
    /\ ret'[w].st = "ok"
    /\ ret'[w].val = lastStore.val
    /\ upstreamCalls' = upstreamCalls

Replaces(w) ==
    /\ pc[w] \in WritePcs /\ pc'[w] = "idle"
    /\ fs'[CACHE_FILE] # fs[CACHE_FILE]
Purges(o, g) ==
    \/ o.name = "clear_cache_group" /\ o.group = g
    \/ o.name = "delete_location_cache" /\ location_group_key(o.loc) = g
\* everything the file held before w's write is still there, but for what w's
\* own operation overwrites, purges or prunes as expired
Kept(w, old, new) ==
    LET o == op[w] IN
    /\ \A a \in DOMAIN old.aliases.map :
          /\ a \in DOMAIN new.aliases.map
          /\ \/ new.aliases.map[a] = old.aliases.map[a]
             \/ o.name = "register_location_alias" /\ o.alias = a
    /\ \A k \in DOMAIN old.locations.map :
          \/ o.name = "delete_location_cache" /\ o.loc = k
          \/ /\ k \in DOMAIN new.locations.map
             /\ \/ new.locations.map[k] = old.locations.map[k]
                \/ o.name = "register_location" /\ o.loc = k
    /\ \A g \in DOMAIN old.groups.map : \A k \in DOMAIN old.groups.map[g].entries :
          EntryOf(old, g, k).expires_at > now =>
             \/ Purges(o, g)
             \/ /\ HasEntry(new, g, k)
                /\ \/ EntryOf(new, g, k) = EntryOf(old, g, k)
                   \/ o.name = "cached_get_json" /\ o.group = g /\ o.key = k
\* w's own update is in the file
Visible(w, new) ==
    LET o == op[w] IN
    /\ o.name = "register_location_alias" =>
          o.alias \in DOMAIN new.aliases.map /\ new.aliases.map[o.alias] = o.loc
    /\ o.name = "register_location" => o.loc \in DOMAIN new.locations.map
    /\ o.name = "cached_get_json" =>
          /\ HasEntry(new, o.group, o.key)
          /\ EntryOf(new, o.group, o.key) = Entry(o.wt + o.ttl, o.data)

\* C7: within one process every completed write keeps the updates of every other
\* thread: on the same day, each alias, location record and unexpired entry the
\* file held is still in it after the write (but for what the writing operation
\* itself overwrites or purges), and the writer's own update is in it.
C7_NoLostUpdate ==
    [][\A w \in Workers :
         (Replaces(w) /\ HasStore /\ HasStore') =>
            /\ Visible(w, Persisted')
            /\ Persisted.meta.date = Persisted'.meta.date => Kept(w, Persisted, Persisted')]_vars

\* C7 witness: a cached_get_json that started first is about to write, after a
\* registration of another thread that started later has completed; the store it
\* writes holds that registration and its own entry.
C7_Witness ==
    \E w \in Workers : \E v \in Workers \ {w} :
        /\ pc[w] = "wr_mkdir" /\ op[w].name = "cached_get_json"
        /\ pc[v] = "idle" /\ ret[v].name = "register_location_alias" /\ ret[v].st = "ok"
        /\ ret[v].seq > op[w].seq
        /\ lastAlias[ret[v].arg].key = "K2"
        /\ ret[v].arg \in DOMAIN cache[w].aliases.map
        /\ cache[w].aliases.map[ret[v].arg] = "K2"
        /\ HasEntry(cache[w], op[w].group, op[w].key)

\* C10: resolve_location_alias(A) returns the canonical key of the last
\* registration of A written to the store on the same day, whatever A was
\* registered to before.
C10_LastWriteWins ==
    [][\A w \in Workers :
         (/\ ncalls'[w] # ncalls[w]
          /\ ret'[w].name = "resolve_location_alias"
          /\ ret'[w].arg \in AliasKeys
          /\ lastAlias[ret'[w].arg].key # ""
          /\ lastAlias[ret'[w].arg].date = today_key)
         => ret'[w].st = "ok" /\ ret'[w].key = lastAlias[ret'[w].arg].key]_vars

\* C10 witness: A was registered to K1, then to K2, and a later resolve returned K2.
C10_Witness ==
    \E w \in Workers :
        /\ pc[w] = "idle"
        /\ ret[w].name = "resolve_location_alias" /\ ret[w].seq = 3 /\ Total = 3
        /\ ret[w].key = "K2"
        /\ lastAlias[ret[w].arg].over = "K1" /\ lastAlias[ret[w].arg].key = "K2"

\* the cache file is absent or holds the complete serialisation of one store
Complete(path) == fs[path] = 0 \/ ParseOk(Content(path))

\* C4: at every step of a store write, and after a crash at any of them, the
\* cache file holds a complete store (the previous one until the rename, the new
\* one after it), never a partial one; the rename is made only once the temp
\* file holds the new store in full.
C4_AtomicReplace ==
    /\ Complete(CACHE_FILE)
    /\ \A w \in Workers :
          pc[w] = "wr_replace" =>
             fs[temp_path] # 0 /\ Content(temp_path) = Serialize(cache[w])

\* C4 witness: the process died in the middle of a write: the temp file is
\* partial, and the cache file holds the complete store of an earlier write.
C4_Witness ==
    /\ \A w \in Workers : pc[w] = "idle" /\ ret[w].st = "none"
    /\ fs[temp_path] # 0
    /\ Len(Content(temp_path)) > 0 /\ Len(Content(temp_path)) < NumParts
    /\ HasStore
    /\ lastAlias["coord:a"].key = "K2"
    /\ Persisted.aliases.map["coord:a"] = "K2"

\* C5: no operation raises on a missing, cut short or misshapen cache file.
C5_NeverRaises == \A w \in Workers : ret[w].err # "AttributeError"

\* C6: a store write that fails at any step (creating the directory, writing the
\* temp file, the rename) raises nothing.
C6_SilentDiscard == \A w \in Workers : ret[w].err # "OSError"

\* C8: with several processes writing, the cache file is at every moment absent
\* or one writer's complete store.
C8_OneWriterComplete == fs[CACHE_FILE] # 0 => ParseOk(Content(CACHE_FILE))

\* C9: any two requests issued to the geocoding upstream are at least
\* NOMINATIM_MIN_INTERVAL apart.
C9_MinInterval ==
    \A i \in DOMAIN issued : \A j \in DOMAIN issued :
        i < j => issued[j] - issued[i] >= NOMINATIM_MIN_INTERVAL

\* the store as every operation sees it: _load_cache_file, then _ensure_today
Observed == Loaded(TRUE).cache
HasLocation(d, k) == k \in DOMAIN d.locations.map
HasGroup(d, g) == g \in DOMAIN d.groups.map
\* the cache file changes in this step
FileChanges == fs'[CACHE_FILE] # fs[CACHE_FILE] \/ Content(CACHE_FILE)' # Content(CACHE_FILE)

\* C16: while a delete_location_cache(K) is under way it holds the lock, the
\* cache file changes only by its own write, and that one write removes both
\* the location record K and the group "loc:K": no store with one of them
\* removed and the other present is ever in the file.
C16_DeleteAtomic ==
    [][\A w \in Workers :
         (pc[w] \in WritePcs /\ op[w].name = "delete_location_cache") =>
            /\ lock[procOf[w]] = w
            /\ FileChanges =>
                  /\ Replaces(w)
                  /\ ~HasLocation(Observed', op[w].loc)
                  /\ ~HasGroup(Observed', "loc:" \o op[w].loc)]_vars

\* C16 witness: a delete of K1 has completed while a call of the other thread,
\* started before it, is still under way; the record K1 and the group loc:K1
\* are both gone, K2 is still there.
C16_Witness ==
    \E w \in Workers : \E v \in Workers \ {w} :
        /\ pc[w] = "idle" /\ ret[w].name = "delete_location_cache" /\ ret[w].arg = "K1"
        /\ pc[v] = "cg_http" /\ op[v].seq < ret[w].seq
        /\ HasStore /\ ~Stale
        /\ ~HasLocation(Persisted, "K1") /\ ~HasGroup(Persisted, "loc:K1")
        /\ HasLocation(Persisted, "K2") /\ HasGroup(Persisted, "loc:K2")

\* the group a purge under way is for
PurgedGroup(o) == IF o.name = "clear_cache_group" THEN o.group ELSE "loc:" \o o.loc

\* C17: a completed clear_location_cache(K) or delete_location_cache(K) leaves
\* every other group with every entry it had, and every other location record,
\* as they were.
C17_GroupIsolation ==
    [][\A w \in Workers :
         (Replaces(w) /\ op[w].name \in {"clear_cache_group", "delete_location_cache"}) =>
            /\ \A g \in DOMAIN Observed.groups.map \ {PurgedGroup(op[w])} :
                  HasGroup(Observed', g) /\ Observed'.groups.map[g] = Observed.groups.map[g]
            /\ \A k \in DOMAIN Observed.locations.map \ {op[w].loc} :
                  /\ HasLocation(Observed', k)
                  /\ Observed'.locations.map[k] = Observed.locations.map[k]]_vars

\* C17 witness: after clear_location_cache(K1) the group loc:K1 is gone and the
\* groups loc:K2 and points_api and both location records are as they were.
C17_Witness ==
    \E w \in Workers :
        /\ pc[w] = "idle" /\ ret[w].name = "clear_cache_group" /\ ret[w].arg = "loc:K1"
        /\ HasStore /\ ~Stale
        /\ ~HasGroup(Persisted, "loc:K1")
        /\ HasGroup(Persisted, "loc:K2") /\ HasGroup(Persisted, "points_api")
        /\ Persisted.groups.map["loc:K2"] = SeedRegistry.groups.map["loc:K2"]
        /\ Persisted.groups.map["points_api"] = SeedRegistry.groups.map["points_api"]
        /\ Persisted.locations = SeedRegistry.locations

\* C18: a location record in the store leaves it only by a delete_location_cache
\* of its key or when the day changes.
C18_RecordsStay ==
    [][\A k \in LocationKeys :
         (HasLocation(Observed, k) /\ ~HasLocation(Observed', k)) =>
            \/ today_key' # today_key
            \/ \E w \in Workers : /\ Replaces(w)
                                  /\ op[w].name = "delete_location_cache"
                                  /\ op[w].loc = k]_vars

\* C19: a register_location_alias step with an empty alias key or an empty
\* canonical key returns at once: it enters no write and the files, and so the
\* persisted aliases, groups, locations and epoch date, are unchanged.
C19_EmptyKeyNoOp ==
    [][\A w \in Workers, a \in AliasKeys \cup {""}, k \in LocationKeys \cup {""} :
         ((a = "" \/ k = "") /\ register_location_alias(w, a, k)) =>
            /\ pc'[w] = "idle" /\ ret'[w].st = "ok"
            /\ fs' = fs /\ inodes' = inodes
            /\ Observed' = Observed
            /\ lock' = lock]_vars

\* C19 witness: the one call made is a register_location_alias of a non-empty
\* alias with an empty canonical key; it has returned and the file is as it was.
C19_Witness ==
    \E w \in Workers :
        /\ Total = 1 /\ \A v \in Workers : pc[v] = "idle"
        /\ ret[w].name = "register_location_alias" /\ ret[w].arg = "coord:a"
        /\ ret[w].st = "ok"
        /\ HasStore /\ Persisted = SeedRegistry

\* C20: a call of cached_get_json issues at most one upstream request: the
\* request step is entered only from the lookup (or the throttle) of the call,
\* the lookup only from the start of the call, and the request step is left for
\* the store or, on a failure, for the caller with the error raised.
C20_NoRetry ==
    [][\A w \in Workers :
         /\ (pc'[w] = "cg_lookup" /\ pc[w] # "cg_lookup") =>
               pc[w] = "idle" /\ ncalls'[w] = ncalls[w] + 1
         /\ (pc'[w] = "cg_http" /\ pc[w] # "cg_http") =>
               pc[w] \in {"cg_lookup", "cg_throttle", "th_sleep"}
         /\ (pc[w] = "cg_http" /\ upstreamCalls' # upstreamCalls /\ ncalls' = ncalls
               /\ \A v \in Workers \ {w} : pc'[v] = pc[v]) =>
               /\ upstreamCalls' = upstreamCalls + 1
               /\ \/ pc'[w] = "cg_store"
                  \/ /\ pc'[w] = "idle"
                     /\ ret'[w].st = "raise"
                     /\ ret'[w].err \in {"HTTPError", "RequestException"}]_vars

\* C20 witness: the one call made has ended with the upstream's timeout or
\* connection failure raised, after one upstream request.
C20_Witness ==
    \E w \in Workers :
        /\ Total = 1 /\ upstreamCalls = 1
        /\ pc[w] = "idle" /\ ret[w].name = "cached_get_json"
        /\ ret[w].st = "raise" /\ ret[w].err = "RequestException"

\* ------------------------------------------------------------- fetch_forecast
\* the canonical key freshly derived for the request: the geocode hint, else the
\* key of the point metadata
FreshKey(f) == IF f.pref # "" THEN f.pref ELSE format_location_key(f.up.city, f.up.state)
\* the key the stored registry holds for an alias ("": none)
StoredAlias(a) == IF a \in DOMAIN Observed.aliases.map THEN Observed.aliases.map[a] ELSE ""
\* the call has returned (None, <message>)
Aborted(f) == f.pc = "done" /\ ~f.record /\ f.error # ""
\* the call sites of the optional enrichment
Optional == {"hourly", "stations", "obs", "alerts", "zone", "geocode"}

\* C11: in fetch_forecast, whenever the coordinate alias resolves to K1 and the
\* key freshly derived for the request (geocode hint, else point metadata) is a
\* different K2, the request uses K2 as its location key and, once past the
\* alias registration, the alias has been rewritten to K2.
C11_FreshKeyWins ==
    \A w \in Workers :
        LET f == ff[w] IN
        (f.key # "" /\ f.cached # "" /\ FreshKey(f) # "" /\ FreshKey(f) # f.cached)
            => /\ f.key = FreshKey(f)
               /\ f.pc \notin {"points", "alias"}
                    => lastAlias[format_coordinate_alias(f.lat, f.lon)].key = FreshKey(f)

\* C11 (amended): whenever the coordinate alias resolves to K1 and the request
\* carries a preferred key K2 different from K1, the request uses K2 and, once
\* past the alias registration, the alias has been rewritten to K2; with no
\* preferred key the request uses K1, whatever the point metadata name, and the
\* alias stays K1.
C11_HintWins ==
    \A w \in Workers :
        LET f == ff[w]
            a == format_coordinate_alias(f.lat, f.lon)
        IN  (f.key # "" /\ f.cached # "")
              => /\ (f.pref # "" /\ f.pref # f.cached)
                       => /\ f.key = f.pref
                          /\ f.pc \notin {"points", "alias"} => lastAlias[a].key = f.pref
                 /\ f.pref = "" => f.key = f.cached /\ lastAlias[a].key = f.cached

\* the alias was K1, the request carried K2 and ran to its record: the alias
\* written last is K2, over K1
C11_Witness ==
    \E w \in Workers :
        /\ ff[w].pc = "done" /\ ff[w].record
        /\ ff[w].cached = "K1" /\ ff[w].pref = "K2" /\ ff[w].key = "K2"
        /\ lastAlias["coord:a"].key = "K2" /\ lastAlias["coord:a"].over = "K1"

\* C12: when the points fetch has succeeded and names a forecast URL, the
\* location key is the preferred key if there is one, else the alias stored for
\* the coordinates if there is one, else "<city>, <state>" of the point
\* metadata; with none of the three the call returns no record and the
\* message of LocationUndetermined.
C12_KeyDerivation ==
    [][\A w \in Workers :
        LET f == ff[w]
            g == ff'[w]
            alias == StoredAlias(format_coordinate_alias(f.lat, f.lon))
            meta == format_location_key(g.up.city, g.up.state)
        IN  (f.pc = "points" /\ g.pc # "points" /\ ret[w].st = "ok" /\ g.up.forecast)
              => /\ f.pref # "" => g.pc # "done" /\ g.key = f.pref
                 /\ (f.pref = "" /\ alias # "") => g.pc # "done" /\ g.key = alias
                 /\ (f.pref = "" /\ alias = "" /\ meta # "")
                        => g.pc # "done" /\ g.key = meta
                 /\ (f.pref = "" /\ alias = "" /\ meta = "")
                        => g.pc = "done" /\ ~g.record /\ g.error = ErrLocation]_vars

\* the coordinates carry a stored alias, the request no preferred key, the point
\* metadata another key: the request ran to its record under the alias's key
C12_Witness ==
    \E w \in Workers :
        /\ ff[w].pc = "done" /\ ff[w].record
        /\ ff[w].pref = "" /\ ff[w].cached = "K1" /\ ff[w].key = "K1"
        /\ format_location_key(ff[w].up.city, ff[w].up.state) = "Erie, PA"

\* C13: for coordinates with |lat| > 90 or |lon| > 180 fetch_forecast has
\* returned no record and the out-of-range message, and has made no upstream
\* request and no call on the cache or the alias registry.
C13_OutOfRange ==
    \A w \in Workers :
        LET f == ff[w] IN
        (f.valid /\ (f.lat > 90 \/ f.lat < -90 \/ f.lon > 180 \/ f.lon < -180))
            => /\ f.pc = "done" /\ ~f.record /\ f.error = ErrRange
               /\ upstreamCalls = f.calls
               /\ ncalls[w] = f.mark /\ pc[w] = "idle"

C13_Witness ==
    \E w \in Workers :
        /\ ff[w].valid /\ ff[w].lat = 40 /\ ff[w].lon = 181
        /\ ff[w].pc = "done" /\ ff[w].error = ErrRange

\* C14: a failure of a mandatory step (the coordinates do not parse, the points
\* fetch or the forecast fetch raises, no location key can be derived) ends
\* fetch_forecast with no record and a message; a call that has ended this way
\* has issued no upstream request beyond the mandatory fetches made up to the
\* failure, and makes no further call.
C14_MandatoryAborts ==
    [][\A w \in Workers :
        LET f == ff[w]
            g == ff'[w]
        IN  /\ (f.pc = "none" /\ g.pc # "none" /\ ~g.valid) => Aborted(g)
            /\ (f.pc \in {"points", "forecast"} /\ g.pc # f.pc /\ ret[w].st = "raise")
                  => Aborted(g)
            /\ (f.pc = "points" /\ g.pc # f.pc /\ ret[w].st = "ok" /\ g.up.forecast
                  /\ f.pref = "" /\ f.cached = ""
                  /\ format_location_key(g.up.city, g.up.state) = "")
                  => Aborted(g)
            /\ Aborted(g)
                  => /\ pc'[w] = "idle"
                     /\ upstreamCalls' - g.calls
                           <= IF g.error \in {ErrParse, ErrRange} THEN 0
                              ELSE IF g.key = "" THEN 1 ELSE 2
            /\ f.pc = "done" => g = f /\ ncalls'[w] = ncalls[w]]_vars

\* the forecast request failed after the points fetch and the alias
\* registration went through
C14_Witness ==
    \E w \in Workers :
        /\ Aborted(ff[w]) /\ ff[w].error = ErrForecastHttp
        /\ ff[w].key = "Erie, PA" /\ upstreamCalls = 2

C25_LazyPrune ==
    [][\A w \in Workers :
         (Replaces(w) /\ op[w].name = "cached_get_json") =>
            /\ HasGroup(Observed', op[w].group)
            /\ HasEntry(Observed', op[w].group, op[w].key)
            /\ \A k \in DOMAIN Observed'.groups.map[op[w].group].entries :
                  ~(EntryOf(Observed', op[w].group, k).expires_at <= op[w].wt)
            /\ \A g \in DOMAIN Observed.groups.map \ {op[w].group} :
                  HasGroup(Observed', g) /\ Observed'.groups.map[g] = Observed.groups.map[g]]_vars

\* at time 1 a value was written for u3 in loc:K1: the expired u1 and u2 are
\* gone from the group, the expired u0 of points_api is still in the file
C25_Witness ==
    /\ HasStore /\ ~Stale /\ now = 1
    /\ lastStore.group = "loc:K1" /\ lastStore.key = "u3" /\ lastStore.val = 1
    /\ DOMAIN Persisted.groups.map["loc:K1"].entries = {"u3"}
    /\ HasEntry(Persisted, "points_api", "u0")
    /\ EntryOf(Persisted, "points_api", "u0").expires_at <= now

\* ------------------------------------------------------------- failed requests
\* C29: the request step of cached_get_json ends in the store step or, on a
\* failure, in the caller with the error raised; the failing step leaves the
\* cache file as it was, so that a lookup of the same fingerprint that missed
\* before the failure misses after it.
C29_NoNegativeCaching ==
    [][\A w \in Workers :
         /\ (pc[w] = "cg_http" /\ pc'[w] # "cg_http") => pc'[w] \in {"cg_store", "idle"}
         /\ (pc[w] = "cg_http" /\ pc'[w] = "idle") =>
               /\ ret'[w].name = "cached_get_json" /\ ret'[w].arg = op[w].key
               /\ ret'[w].st = "raise" /\ ret'[w].err \in HttpErrors
               /\ ~FileChanges
               /\ lookup(Observed', op[w].group, op[w].key, now).hit
                     => lookup(Observed, op[w].group, op[w].key, now).hit]_vars

\* one thread made both calls: the first, for u2 of loc:K1, went to the upstream
\* and failed, the store is as it was, and the second call for u2 is at its
\* own upstream request
C29_Witness ==
    \E w \in Workers :
        /\ ncalls[w] = 2 /\ Total = 2 /\ upstreamCalls = 1
        /\ pc[w] = "cg_http" /\ op[w].group = "loc:K1" /\ op[w].key = "u2"
        /\ HasStore /\ Persisted = SeedRegistry

\* ------------------------------------------------------------- lock discipline
\* C28: no thread holds CACHE_LOCK while its upstream request or its throttle
\* wait is under way, or together with _NOMINATIM_LOCK; the lock is taken only
\* when free; a thread that holds it is inside _write_cache_file and can
\* finish and release it, and a thread that has returned does not hold it.
C28_LockDiscipline ==
    \A w \in Workers :
        /\ pc[w] \in {"cg_http", "cg_throttle", "th_sleep"} => lock[procOf[w]] # w
        /\ tlock = w => lock[procOf[w]] # w /\ pc[w] = "th_sleep"
        /\ pc[w] = "idle" => lock[procOf[w]] # w /\ tlock # w
        /\ lock[procOf[w]] = w => pc[w] \in WritePcs /\ ENABLED write_cache_file(w)
        /\ pc[w] = "th_sleep" => tlock = w /\ (now >= wake[w] => ENABLED th_wake(w))
        /\ (pc[w] \in {"cg_lookup", "cg_store"} /\ lock[procOf[w]] = 0)
              => ENABLED (cg_lookup(w) \/ cg_store(w))

\* one thread writes the store under CACHE_LOCK while the other sleeps in the
\* throttle under _NOMINATIM_LOCK
C28_Witness ==
    \E w \in Workers : \E v \in Workers \ {w} :
        /\ lock[procOf[w]] = w /\ pc[w] = "wr_mkdir" /\ op[w].name = "delete_location_cache"
        /\ tlock = v /\ pc[v] = "th_sleep"

\* ------------------------------------------------------------- location registry
\* C26: when fetch_forecast returns a record, the store holds the location
\* record of the request's key with the request's coordinates and the time of
\* the registration; but for the discard of a store of an earlier day, the
\* locations in the file change only in the register_location of a call that
\* got its forecast periods, and a call that returns an error has never
\* reached it.
C26_RegistersOnSuccess ==
    [][\A w \in Workers :
         LET f == ff[w]
             g == ff'[w]
         IN  /\ (f.pc # "done" /\ g.pc = "done" /\ g.record)
                   => /\ HasStore' /\ HasLocation(Persisted', g.key)
                      /\ Persisted'.locations.map[g.key]
                            = LocationRecord(g.key, g.lat, g.lon, now)
             /\ (f.pc \notin {"none", "done"} /\ HasStore /\ ~Stale /\ HasStore'
                   /\ Persisted'.locations # Persisted.locations)
                   => f.pc = "register" /\ op[w].loc = f.key
             /\ (f.pc \notin {"none", "done"} /\ ~HasStore /\ HasStore'
                   /\ Persisted'.locations.map # EmptyMap)
                   => f.pc = "register" /\ op[w].loc = f.key
             /\ (f.pc # "done" /\ Aborted(g)) => f.pc \notin {"register"} \cup Optional]_vars

\* a first run: the request for (40, -80) came back with its record and the
\* store holds the location record of "Erie, PA"
C26_Witness ==
    \E w \in Workers :
        /\ ff[w].pc = "done" /\ ff[w].record /\ ff[w].key = "Erie, PA"
        /\ ff[w].cached = ""
        /\ HasStore /\ DOMAIN Persisted.locations.map = {"Erie, PA"}
        /\ Persisted.locations.map["Erie, PA"].lat = 40

\* ------------------------------------------------------------- purge and aliases
\* the purge operations of a location
PurgeNames == {"clear_cache_group", "delete_location_cache"}

\* C30: a completed clear_location_cache(K) or delete_location_cache(K) leaves
\* the alias map as it was; a fetch_forecast that resolves the coordinates
\* aliased to K after the purge gets K, with no preferred key it takes K as its
\* location key, and its register_location writes the location record of K.
C30_PurgeKeepsAliases ==
    [][\A w \in Workers :
         LET f == ff[w]
             g == ff'[w]
         IN  /\ (Replaces(w) /\ op[w].name \in PurgeNames)
                   => Observed'.aliases = Observed.aliases
             /\ (f.pc = "resolve" /\ g.pc # "resolve"
                   /\ \E v \in Workers : ret[v].name \in PurgeNames /\ ret[v].arg \in {"K1", "loc:K1"})
                   => g.pc = "points" /\ g.cached = "K1"
             /\ (f.pc = "points" /\ g.pc \notin {"points", "done"}
                   /\ f.cached = "K1" /\ f.pref = "")
                   => g.key = "K1"
             /\ (Replaces(w) /\ f.pc = "register")
                   => /\ op[w].name = "register_location" /\ op[w].loc = f.key
                      /\ HasLocation(Observed', f.key)]_vars

\* delete_location_cache("K1") was the first call of the run; the fetch for the
\* coordinates, with no preferred key, came back with its record under K1 and
\* the store holds the alias and, again, the location record of K1
C30_Witness ==
    \E w \in Workers : \E v \in Workers \ {w} :
        /\ ret[v].name = "delete_location_cache" /\ ret[v].arg = "K1" /\ ret[v].seq = 1
        /\ pc[v] = "idle"
        /\ ff[w].pc = "done" /\ ff[w].record /\ ff[w].pref = ""
        /\ ff[w].cached = "K1" /\ ff[w].key = "K1"
        /\ HasStore /\ ~Stale
        /\ HasLocation(Persisted, "K1")
        /\ Persisted.aliases.map = SeedStore.aliases.map

\* ------------------------------------------------------------- geocoding
\* the stripped input reads as a ZIP code: five digits, nine digits, or five
\* digits, a hyphen and four digits
ReadsAsZip(q) ==
    /\ Len(q) \in {5, 9, 10}
    /\ \A i \in 1..Len(q) : IF Len(q) = 10 /\ i = 6 THEN q[i] = "-" ELSE q[i] \in DigitChars
\* the ZIP code as "DDDDD" or "DDDDD-DDDD"
ZipOf(q) == IF Len(q) = 9 THEN <<q[1], q[2], q[3], q[4], q[5], "-", q[6], q[7], q[8], q[9]>>
            ELSE q

\* C21: when geocode_address has ended, the requests it made are: none for a
\* missing or blank address; for a ZIP code the postal-code query first and
\* then the free-text query "<zip> USA" exactly when the postal-code query
\* came back with no result; for any other address the one free-text query.
C21_QuerySequence ==
    \A w \in Workers :
        LET f == gc[w]
            q == StripSeq(f.address)
        IN  (f.fn = "geocode_address" /\ f.pc = "done") =>
              /\ ncalls[w] = Len(f.sent)
              /\ IF ~f.present \/ q = << >> THEN f.sent = << >>
                 ELSE IF ReadsAsZip(q)
                 THEN /\ Len(f.sent) \in {1, 2}
                      /\ f.sent[1] = PostalKey(ZipOf(q))
                      /\ Len(f.sent) = 2 <=> f.first = "empty"
                      /\ Len(f.sent) = 2 => f.sent[2] = ZipTextKey(ZipOf(q))
                 ELSE f.sent = <<TextKey(q)>>

\* nine digits: the postal-code query for 15201-1234 found nothing and the
\* free-text query found the place
C21_Witness ==
    \E w \in Workers :
        /\ gc[w].fn = "geocode_address" /\ gc[w].pc = "done"
        /\ gc[w].address = <<"1", "5", "2", "0", "1", "1", "2", "3", "4">>
        /\ gc[w].sent = <<"postalcode=15201-1234", "q=15201-1234 USA">>
        /\ gc[w].first = "empty" /\ gc[w].res = "full" /\ gc[w].error = ""

\* C22: when geocode_address has returned, the message is that of the cause: a
\* missing or blank address, an HTTP error status, a failed connection, no
\* result, a first result without coordinates; with a message none of lat, lon,
\* city, state and display name is there, and with a result there is no message.
C22_ErrorTaxonomy ==
    \A w \in Workers :
        LET f == gc[w]
            r == ret[w]
        IN  (f.fn = "geocode_address" /\ f.pc = "done" /\ f.raised = "") =>
              /\ (~f.present \/ StripSeq(f.address) = << >>) => f.error = ErrNoAddress
              /\ (f.sent # << >> /\ r.st = "raise" /\ r.err = "HTTPError")
                    => f.error = ErrGeoHttp
              /\ (f.sent # << >> /\ r.st = "raise" /\ r.err = "RequestException")
                    => f.error = ErrGeoUnreachable
              /\ (f.sent # << >> /\ r.st = "ok" /\ f.res = "empty") => f.error = ErrNoResults
              /\ (f.sent # << >> /\ r.st = "ok" /\ f.res = "nocoords") => f.error = ErrNoCoords
              /\ (f.sent # << >> /\ r.st = "ok" /\ f.res \in {"nocity", "full"})
                    => f.error = "" /\ f.lat /\ f.lon
              /\ f.error # "" => ~f.lat /\ ~f.lon /\ ~f.city /\ ~f.state /\ ~f.display
              /\ f.error = "" => f.lat /\ f.lon

\* the ZIP code's two queries were made and the first result of the second has
\* no coordinates
C22_Witness ==
    \E w \in Workers :
        /\ gc[w].fn = "geocode_address" /\ gc[w].pc = "done"
        /\ Len(gc[w].sent) = 2 /\ gc[w].res = "nocoords"
        /\ gc[w].error = ErrNoCoords /\ ~gc[w].display

\* C23: geocode_place never raises: when it has ended, it has returned a pair.
C23_PlaceNeverRaises ==
    \A w \in Workers :
        (gc[w].fn = "geocode_place" /\ gc[w].pc = "done") => gc[w].raised = ""

\* C24: of the areas _build_alert_areas has collected, one whose distance is
\* known and over 100 miles is dropped, one whose distance is unknown is kept
\* and stands after every area of known distance, and the areas of known
\* distance are in ascending order of distance.
C24_UnknownKeptLast ==
    areas.pc = "done" =>
        LET inp == areas.input
            out == areas.output
            Returns(i) == \E j \in DOMAIN out : out[j].id = inp[i].id
        IN /\ \A i \in DOMAIN inp :
                (Known(inp[i]) /\ inp[i].distance > Eighths(ALERT_AREA_MAX_DISTANCE_MI))
                    => ~Returns(i)
           /\ \A i \in DOMAIN inp :
                ~Known(inp[i]) =>
                    \E j \in DOMAIN out :
                        /\ out[j].id = inp[i].id
                        /\ \A k \in DOMAIN out : Known(out[k]) => k < j
           /\ \A j, k \in DOMAIN out :
                (j < k /\ Known(out[j]) /\ Known(out[k])) => out[j].distance <= out[k].distance

\* C27: among the areas _build_alert_areas returns, an area is flagged
\* is_closest exactly when its distance is known and less than 0.25 miles from
\* the least distance returned: the nearest area is flagged, every area that
\* ties with it is flagged, and no area of unknown distance is flagged.
C27_ClosestMarking ==
    areas.pc = "done" =>
        LET out == areas.output
            known == {out[j].distance : j \in {k \in DOMAIN out : Known(out[k])}}
        IN \A j \in DOMAIN out :
              /\ out[j].is_closest <=>
                    /\ Known(out[j])
                    /\ \A d \in known : 4 * (out[j].distance - d) < Eighths(1)
              /\ (Known(out[j]) /\ \A d \in known : out[j].distance <= d) => out[j].is_closest

\* a result of three areas: two at the least distance, flagged, and one a
\* quarter of a mile or more further, not flagged
C27_Witness ==
    /\ areas.pc = "done"
    /\ \E i, j, k \in DOMAIN areas.output :
          /\ i < j /\ j < k
          /\ areas.output[i].distance = areas.output[j].distance
          /\ areas.output[i].is_closest /\ areas.output[j].is_closest
          /\ Known(areas.output[k]) /\ ~areas.output[k].is_closest

====
